---------------------------- MODULE Spec2Model ----------------------------
(***************************************************************************)
(* painlessMesh simulator: the event scheduler, the network simulator's    *)
(* delayed-delivery queue and the virtual node lifecycle.                   *)
(*                                                                         *)
(* Both queues are std::priority_queue over a std::vector: a binary heap   *)
(* kept by std::push_heap / std::pop_heap with a comparator that looks at  *)
(* the time field only.  The heap is modelled as the vector it is, with    *)
(* the sift-up / sift-down steps of the standard library, so that the      *)
(* order in which equal keys leave the queue is the order the program      *)
(* produces and not an assumed one.                                        *)
(***************************************************************************)
EXTENDS Integers, Sequences, FiniteSets, TLC

\* ------------------------------------------------------------------ bounds
\* total number of scheduleEvent calls in a run
MaxEvents == 3
\* scheduled times and processEvents times range over 0..MaxTime (seconds)
MaxTime == 1
\* the steady clock (milliseconds) ranges over 0..MaxClock
MaxClock == 2
\* a node is crashed at most MaxCrashes times by direct calls
MaxCrashes == 2
\* total number of enqueueMessage calls in a run
MaxMessages == 3
\* enqueueMessage is called with a current time in 0..MaxNowMs
MaxNowMs == 1
\* total number of drop, restore and packet loss calls in a run
MaxConfigCalls == 3
\* total number of setDefaultLatency and setLatency calls in a run
MaxLatencyCalls == 2
\* the same, in the runs that fill and drain the message queue
MaxQueueLatencyCalls == 1
MaxDetCalls == 4
MaxBurstLength == 3
MaxDecisions == 7
MaxTicks == 2
\* the largest elapsed time, in seconds, that main()'s steady clock shows
MaxElapsed == 2
MaxTemplateCount == 2
\* enqueue and configuration calls in a run that has every operation
MaxFrameCalls == 3
\* the largest number of link settings and degradation events together
MaxDegradeCalls == 2
\* NodeManager::MAX_NODES, the most nodes a manager holds.  The program has
\* 1000; the model takes a capacity that its node ids can exceed.
MAX_NODES == 3
\* firmware instances handed to one node by loadFirmware
MaxLoads == 2
\* firmware loop() calls on one node
MaxLoops == 2

\* the node manager's nodes, and an id no node has
NodeIds == {1, 2}
UnknownNodeId == CHOOSE n \in 1..(Cardinality(NodeIds) + 1) : n \notin NodeIds
EventTypes == {"NodeStart", "NodeStop", "NodeCrash", "NodeRestart"}
\* the events a timeline holds: every lifecycle event, on node 1 and on a
\* node the manager does not have
TimelineEvents == [type : EventTypes, nodeId : {1, UnknownNodeId}]
\* the ids link and partition events name: the nodes and the unknown id
AllIds == NodeIds \cup {UnknownNodeId}

VARIABLES
  eventQueue_,     \* EventScheduler::eventQueue_, the heap's vector
  nodes,           \* NodeManager's nodes: id -> VirtualNode fields
  clock,           \* std::chrono::steady_clock::now(), in ms
  nextSeq,         \* history: number of scheduleEvent calls so far
  lastCall,        \* history: what the last call on the scheduler did
  crashHistory     \* history: per node, the NodeCrash events executed on it

esVars == <<eventQueue_, nodes, clock, nextSeq, lastCall, crashHistory>>

VARIABLES
  message_queue_,        \* NetworkSimulator::message_queue_, the heap's vector
  default_latency_,      \* NetworkSimulator::default_latency_
  latency_map_,          \* per-connection latency configs: link -> config
  stats_map_,            \* per-connection statistics: link -> ConnectionStats
  default_packet_loss_,  \* NetworkSimulator::default_packet_loss_
  packet_loss_map_,      \* per-connection packet loss configs: link -> config
  dropped_connections_,  \* the directed links that are dropped
  nextMsg,               \* history: number of enqueueMessage calls so far
  configCalls,           \* history: number of drop, restore and loss calls so far
  latencyCalls,          \* history: number of latency configuration calls so far
  enqueueCalls,          \* history: link -> enqueue calls since the last resetStats
  everDropped,           \* history: the links that were dropped at some time
  fate,                  \* history: message -> "queued", "returned", "cleared"
  lastNet,               \* history: what the last call on the simulator did
  rng_                   \* NetworkSimulator::rng_: its seed, and the samples drawn

nsVars == <<message_queue_, default_latency_, latency_map_, stats_map_,
            default_packet_loss_, packet_loss_map_, dropped_connections_, nextMsg, configCalls,
            latencyCalls, enqueueCalls, everDropped, fate, lastNet, rng_>>

VARIABLES
  lastNode,              \* history: what the last call on a node did
  mt19937,               \* history: the generator's outputs drawn so far,
                         \* <<seed, position>> -> output
  twin                   \* a second NetworkSimulator, given the same calls

VARIABLES
  burst_state_map_,      \* NetworkSimulator::burst_state_map_: link -> BurstState
  decisions              \* history: link -> what shouldDropPacket returned, in order

burstVars == <<burst_state_map_, decisions>>

VARIABLES
  mainLoop               \* main(): where it is (pc), its update_count, and history:
                         \* the ids in the order they were created, the steps of
                         \* the last pass of its loop, the connections requested

VARIABLES
  loader                 \* ConfigLoader and the ScenarioConfig it loaded: where the
                         \* loading is (pc), config, the errors of validation, and
                         \* what std::hash<std::string> yields (hasher)

VARIABLES
  creators_,             \* FirmwareFactory::creators_: name -> creator
  lastFactory            \* history: what the last call on the factory did

factoryVars == <<creators_, lastFactory>>

\* what the calls on the simulator and on single nodes leave alone
moreVars == <<burstVars, mainLoop, loader, factoryVars>>

auxVars == <<lastNode, mt19937, twin, moreVars>>

vars == <<esVars, nsVars, auxVars>>

\* ------------------------------------------------------------- binary heap
EventComparator_reversed(a, b) == a.scheduledTime < b.scheduledTime

\* EventScheduler::EventComparator: a comes after b iff its time is greater
EventComparator(a, b) == a.scheduledTime > b.scheduledTime

\* comparator of the queue a heap belongs to
Comp(kind, a, b) ==
  IF kind = "event" THEN EventComparator(a, b) ELSE a.deliveryTime > b.deliveryTime

\* std::__push_heap: move the hole up while the parent compares less than
\* value.  Indices are the vector's (0-based); h[i + 1] is element i.
RECURSIVE push_heap_up(_, _, _, _, _)
push_heap_up(kind, h, holeIndex, topIndex, value) ==
  LET parent == (holeIndex - 1) \div 2 IN
  IF holeIndex > topIndex /\ Comp(kind, h[parent + 1], value)
  THEN push_heap_up(kind, [h EXCEPT ![holeIndex + 1] = h[parent + 1]],
                    parent, topIndex, value)
  ELSE [h EXCEPT ![holeIndex + 1] = value]

\* priority_queue::push: c.push_back(x); std::push_heap(c.begin(), c.end())
PushHeap(kind, h, x) ==
  push_heap_up(kind, Append(h, x), Len(h), 0, x)

\* std::__adjust_heap, first loop: move the hole down to the larger child
\* (the right child unless it compares less than the left one)
RECURSIVE adjust_heap_down(_, _, _, _)
adjust_heap_down(kind, h, secondChild, len) ==
  IF secondChild < (len - 1) \div 2
  THEN LET right == 2 * (secondChild + 1)
           child == IF Comp(kind, h[right + 1], h[right]) THEN right - 1 ELSE right
       IN adjust_heap_down(kind, [h EXCEPT ![secondChild + 1] = h[child + 1]],
                           child, len)
  ELSE [h |-> h, hole |-> secondChild]

\* std::__adjust_heap(first, 0, len, value): sift the hole at the root down
\* to a leaf, then push value up from there
adjust_heap(kind, h, len, value) ==
  LET d == adjust_heap_down(kind, h, 0, len)
      e == IF len % 2 = 0 /\ d.hole = (len - 2) \div 2
           THEN [h |-> [d.h EXCEPT ![d.hole + 1] = d.h[2 * (d.hole + 1)]],
                 hole |-> 2 * (d.hole + 1) - 1]
           ELSE d
  IN push_heap_up(kind, e.h, e.hole, 0, value)

\* priority_queue::pop: std::pop_heap(c.begin(), c.end()); c.pop_back()
PopHeap(kind, h) ==
  IF Len(h) <= 1 THEN <<>>
  ELSE adjust_heap(kind, SubSeq(h, 1, Len(h) - 1), Len(h) - 1, h[Len(h)])

\* ------------------------------------------------------------ virtual node
\* firmware_initialized_ of a new node.  The member's declaration is not in
\* the header at hand; a node sets its firmware up at its first start, which
\* takes the flag to begin as false.
FirmwareInitializedAtConstruction == FALSE

\* VirtualNode after construction: stopped, no crash, no uptime, no firmware.
\* firmware_ is the firmware instance attached (0 is the null pointer);
\* started and fwLog are history: whether start() ever succeeded, and the
\* loadFirmware calls and the calls made on firmware instances, in order.
NewNode ==
  [running_ |-> FALSE, crash_count |-> 0, total_uptime_ms |-> 0, start_time |-> 0,
   partition_id |-> 0,
   firmware_ |-> 0, firmware_initialized_ |-> FirmwareInitializedAtConstruction,
   started |-> FALSE,
   fwLog |-> <<>>]

\* a call on firmware instance fw, or loadFirmware(fw), as a fwLog entry
FwCall(op, fw, n) == [op |-> op, fw |-> fw, started |-> n.started]

setupFirmware_every_start(n) ==
  IF n.firmware_ = 0 THEN n
  ELSE [n EXCEPT !.fwLog = @ \o <<FwCall("initialize", n.firmware_, n),
                                  FwCall("setup", n.firmware_, n)>>,
                 !.firmware_initialized_ = TRUE]

\* VirtualNode::setupFirmware: nothing without a firmware or once the flag
\* is set; else firmware_->initialize(...), firmware_->setup(), set the flag
setupFirmware(n) ==
  IF n.firmware_ = 0 \/ n.firmware_initialized_ THEN n
  ELSE [n EXCEPT !.fwLog = @ \o <<FwCall("initialize", n.firmware_, n),
                                  FwCall("setup", n.firmware_, n)>>,
                 !.firmware_initialized_ = TRUE]

start_restarts_running(n, now) ==
  [ok |-> TRUE, node |-> [setupFirmware(n) EXCEPT !.start_time = now,
                                                  !.running_ = TRUE,
                                                  !.started = TRUE]]

\* VirtualNode::start: throws on a running node, else records the start
\* time, sets the firmware up and sets the running flag
start(n, now) ==
  IF n.running_ THEN [ok |-> FALSE, node |-> n]
  ELSE [ok |-> TRUE, node |-> [setupFirmware(n) EXCEPT !.start_time = now,
                                                       !.running_ = TRUE,
                                                       !.started = TRUE]]

\* VirtualNode::stop: nothing on a stopped node, else adds the uptime
stop(n, now) ==
  IF ~n.running_ THEN n
  ELSE [n EXCEPT !.total_uptime_ms = @ + (now - n.start_time), !.running_ = FALSE]

\* VirtualNode::crash: nothing on a stopped node, else adds the uptime and
\* counts the crash
crash(n, now) ==
  IF ~n.running_ THEN n
  ELSE [n EXCEPT !.total_uptime_ms = @ + (now - n.start_time),
                 !.crash_count = @ + 1, !.running_ = FALSE]

restart_by_crash(n, now) == start(crash(n, now), now)

restart_without_stop(n, now) == start(n, now)

\* VirtualNode::restart: stop(); start();
restart(n, now) == start(stop(n, now), now)

update_stopped_too(n) ==
  IF n.firmware_ # 0 /\ n.firmware_initialized_
  THEN [n EXCEPT !.fwLog = Append(@, FwCall("loop", n.firmware_, n))]
  ELSE n

\* VirtualNode::update, the calls it makes in order: none on a stopped node;
\* else mesh_->update() (the constructor always creates mesh_), firmware_->loop()
\* if a firmware is attached and the flag is set, io_.poll()
updateSteps(n) ==
  IF ~n.running_ THEN <<>>
  ELSE <<"mesh.update">>
       \o (IF n.firmware_ # 0 /\ n.firmware_initialized_ THEN <<"firmware.loop">> ELSE <<>>)
       \o <<"io.poll">>

\* VirtualNode::update, the node after it: nothing on a stopped node; else
\* the mesh's update, the firmware's loop() if a firmware is attached and the
\* flag is set, and the io context's poll
update(n) ==
  IF ~n.running_ THEN n
  ELSE IF n.firmware_ # 0 /\ n.firmware_initialized_
       THEN [n EXCEPT !.fwLog = Append(@, FwCall("loop", n.firmware_, n))]
       ELSE n

\* VirtualNode::loadFirmware(std::unique_ptr<FirmwareBase>): the instance
\* takes the slot
loadFirmware(n, fw) ==
  [n EXCEPT !.firmware_ = fw, !.fwLog = Append(@, FwCall("load", fw, n))]

\* ------------------------------------------------------------------ events
\* Event::execute of the four lifecycle events: throws when the manager has
\* no such node; [ok, nodes] is whether it returned and the nodes after it
execute(ev, ns, now) ==
  IF ev.nodeId \notin DOMAIN ns THEN [ok |-> FALSE, nodes |-> ns]
  ELSE LET n == ns[ev.nodeId] IN
    CASE ev.type = "NodeStart" ->
           IF ~n.running_
           THEN LET r == start(n, now) IN
                [ok |-> r.ok, nodes |-> [ns EXCEPT ![ev.nodeId] = r.node]]
           ELSE [ok |-> TRUE, nodes |-> ns]
      [] ev.type = "NodeStop" ->
           IF n.running_
           THEN [ok |-> TRUE, nodes |-> [ns EXCEPT ![ev.nodeId] = stop(n, now)]]
           ELSE [ok |-> TRUE, nodes |-> ns]
      [] ev.type = "NodeCrash" ->
           IF n.running_
           THEN [ok |-> TRUE, nodes |-> [ns EXCEPT ![ev.nodeId] = crash(n, now)]]
           ELSE [ok |-> TRUE, nodes |-> ns]
      [] ev.type = "NodeRestart" ->
           LET r == restart(n, now) IN
           [ok |-> r.ok, nodes |-> [ns EXCEPT ![ev.nodeId] = r.node]]

\* --------------------------------------------------------- event scheduler
RECURSIVE processLoop_rethrow(_, _, _, _, _, _)
processLoop_rethrow(q, ns, currentTime, now, executedCount, log) ==
  IF q = <<>> \/ q[1].scheduledTime > currentTime
  THEN [queue |-> q, nodes |-> ns, executedCount |-> executedCount, log |-> log]
  ELSE LET r == execute(q[1], ns, now)
           wasRunning == q[1].nodeId \in DOMAIN ns /\ ns[q[1].nodeId].running_
           l == Append(log, [event |-> q[1], ok |-> r.ok, wasRunning |-> wasRunning,
                             unchanged |-> r.nodes = ns])
       IN IF r.ok
          THEN processLoop_rethrow(PopHeap("event", q), r.nodes, currentTime, now,
                                   executedCount + 1, l)
          ELSE [queue |-> PopHeap("event", q), nodes |-> r.nodes,
                executedCount |-> executedCount, log |-> l]

\* the while loop of EventScheduler::processEvents: peek the top, stop when
\* it is in the future, else pop it and execute it, counting the events
\* that did not throw.  log is the history of the events executed, each
\* with the running flag its node had before it ran and whether it left
\* every node as it was.
RECURSIVE processLoop(_, _, _, _, _, _)
processLoop(q, ns, currentTime, now, executedCount, log) ==
  IF q = <<>>
  THEN [queue |-> q, nodes |-> ns, executedCount |-> executedCount, log |-> log]
  ELSE LET nextEvent == q[1] IN
    IF nextEvent.scheduledTime > currentTime
    THEN [queue |-> q, nodes |-> ns, executedCount |-> executedCount, log |-> log]
    ELSE LET r == execute(nextEvent, ns, now)
             wasRunning == nextEvent.nodeId \in DOMAIN ns /\ ns[nextEvent.nodeId].running_
         IN processLoop(PopHeap("event", q), r.nodes, currentTime, now,
                        IF r.ok THEN executedCount + 1 ELSE executedCount,
                        Append(log, [event |-> nextEvent, ok |-> r.ok,
                                     wasRunning |-> wasRunning,
                                     unchanged |-> r.nodes = ns]))

\* lastCall when the last call was not processEvents
NoCall == [op |-> "none", currentTime |-> 0, executedCount |-> 0, log |-> <<>>,
           before |-> <<>>]

\* EventScheduler::scheduleEvent(event, time): a non-null event gets its
\* time and is pushed.  seq is the history of the insertion order.
ScheduleEvent(type, nodeId, time) ==
  /\ nextSeq < MaxEvents
  /\ eventQueue_' = PushHeap("event", eventQueue_,
                             [type |-> type, nodeId |-> nodeId,
                              scheduledTime |-> time, seq |-> nextSeq])
  /\ nextSeq' = nextSeq + 1
  /\ lastCall' = [NoCall EXCEPT !.op = "scheduleEvent"]
  /\ UNCHANGED <<nodes, clock, crashHistory>>
  /\ UNCHANGED <<nsVars, auxVars>>

\* EventScheduler::processEvents(currentTime, manager, network)
ProcessEvents(currentTime) ==
  LET r == processLoop(eventQueue_, nodes, currentTime, clock, 0, <<>>) IN
  /\ eventQueue_' = r.queue
  /\ nodes' = r.nodes
  /\ lastCall' = [op |-> "processEvents", currentTime |-> currentTime,
                  executedCount |-> r.executedCount, log |-> r.log,
                  before |-> eventQueue_]
  /\ crashHistory' =
       [id \in NodeIds |->
          LET on == {i \in 1..Len(r.log) : /\ r.log[i].event.type = "NodeCrash"
                                           /\ r.log[i].event.nodeId = id}
          IN [executed |-> crashHistory[id].executed + Cardinality(on),
              onRunning |-> crashHistory[id].onRunning
                            + Cardinality({i \in on : r.log[i].wasRunning})]]
  /\ UNCHANGED <<clock, nextSeq>>
  /\ UNCHANGED <<nsVars, auxVars>>

\* the steady clock moves on between two calls
AdvanceClock ==
  /\ clock < MaxClock
  /\ clock' = clock + 1
  /\ UNCHANGED <<eventQueue_, nodes, nextSeq, lastCall, crashHistory>>
  /\ UNCHANGED <<nsVars, auxVars>>

\* -------------------------------------------------------- network simulator
\* the directed links between two different nodes
Links == {l \in NodeIds \X NodeIds : l[1] # l[2]}
\* the directed links between two different ids that events name
AllLinks == {l \in AllIds \X AllIds : l[1] # l[2]}

\* ConnectionStats::min_latency_ms before the first message.  The program
\* has UINT32_MAX there; TLC's integers end at 2^31 - 1, which is likewise
\* above every latency that min() compares it with.
MinLatencyInit == 2147483647

\* the latency configurations the callers pass; the last one is not valid
LatencyConfigs ==
  { [min_ms |-> 2, max_ms |-> 2, distribution |-> "UNIFORM"],
    [min_ms |-> 0, max_ms |-> 3, distribution |-> "EXPONENTIAL"],
    [min_ms |-> 3, max_ms |-> 1, distribution |-> "UNIFORM"] }

\* the packet loss configurations the callers pass (probability in percent)
PacketLossConfigs ==
  { [probability |-> pr, burst_mode |-> FALSE, burst_length |-> 3] : pr \in {50, 100} }

\* the burst mode configurations the callers pass
BurstConfigs ==
  { [probability |-> pr, burst_mode |-> TRUE, burst_length |-> k] :
      pr \in {50, 100}, k \in 1..MaxBurstLength }

\* packet loss configurations that are not valid: a probability below 0,
\* one above 1, and a burst of no packet
InvalidPacketLossConfigs ==
  { [probability |-> 0 - 10, burst_mode |-> FALSE, burst_length |-> 3],
    [probability |-> 150, burst_mode |-> FALSE, burst_length |-> 3],
    [probability |-> 50, burst_mode |-> TRUE, burst_length |-> 0] }

\* PacketLossConfig::isValid
isValidLoss_any_burst_length(config) ==
  config.probability >= 0 /\ config.probability <= 100

isValidLoss(config) ==
  config.probability >= 0 /\ config.probability <= 100 /\ config.burst_length > 0

\* uint32_t arithmetic.  A uint32_t is held as the 32-bit two's complement
\* integer with the same bits, so that the values from 2^31 on are the
\* negative ones; for the values below 2^31 all of this is the usual
\* arithmetic.
Pow30 == 1073741824
Int32Max == 2147483647
\* the low 31 bits of a
uint32_low31(a) == IF a >= 0 THEN a ELSE (a + Int32Max) + 1
\* a * 2 in uint32_t: the product modulo 2^32
uint32_times2(a) ==
  LET low30 == uint32_low31(a) % Pow30 IN
  IF uint32_low31(a) >= Pow30 THEN (2 * low30 - Int32Max) - 1 ELSE 2 * low30
\* a <= b in uint32_t
uint32_le(a, b) == IF (a >= 0) = (b >= 0) THEN a <= b ELSE a >= 0

\* LatencyConfig::isValid
isValid(config) == uint32_le(config.min_ms, config.max_ms)

getLatency_either_direction(fromNode, toNode) ==
  IF <<fromNode, toNode>> \in DOMAIN latency_map_
  THEN latency_map_[<<fromNode, toNode>>]
  ELSE IF <<toNode, fromNode>> \in DOMAIN latency_map_
  THEN latency_map_[<<toNode, fromNode>>]
  ELSE default_latency_

\* NetworkSimulator::getLatency: the connection's own config, else the default
getLatency(fromNode, toNode) ==
  IF <<fromNode, toNode>> \in DOMAIN latency_map_
  THEN latency_map_[<<fromNode, toNode>>]
  ELSE default_latency_

Max(a, b) == IF a >= b THEN a ELSE b
Min(a, b) == IF a <= b THEN a ELSE b

\* what the random generator hands to a distribution, in half milliseconds:
\* a value below the range, one in its middle and one above it
Draws(config) ==
  {2 * config.min_ms - 1, config.min_ms + config.max_ms, 2 * config.max_ms + 1}

\* NetworkSimulator::uniformDistribution: std::uniform_int_distribution maps
\* the generator's output into [min, max]
uniformDistribution(min, max, draw) ==
  IF min = max THEN min ELSE min + (draw % (max - min + 1))

clampRound_no_clamp(min, max, value2) == (Max(0, value2) + 1) \div 2

\* the tail of normalDistribution and exponentialDistribution: clamp the
\* double to [min, max], std::round it (value2 is twice the value), clamp again
clampRound(min, max, value2) ==
  LET clamped2 == Min(2 * max, Max(2 * min, value2))
      result == (clamped2 + 1) \div 2
  IN Min(max, Max(min, result))

\* NetworkSimulator::normalDistribution: the draw is the normal variate
normalDistribution(min, max, draw) ==
  IF min = max THEN min ELSE clampRound(min, max, draw)

\* NetworkSimulator::exponentialDistribution: a variate >= 0, offset by min
exponentialDistribution(min, max, draw) ==
  IF min = max THEN min
  ELSE clampRound(min, max, 2 * min + (draw - (2 * min - 1)))

\* NetworkSimulator::calculateLatency
calculateLatency(config, draw) ==
  CASE config.distribution = "UNIFORM" ->
         uniformDistribution(config.min_ms, config.max_ms, draw)
    [] config.distribution = "NORMAL" ->
         normalDistribution(config.min_ms, config.max_ms, draw)
    [] config.distribution = "EXPONENTIAL" ->
         exponentialDistribution(config.min_ms, config.max_ms, draw)
    [] OTHER -> uniformDistribution(config.min_ms, config.max_ms, draw)

\* a default-constructed ConnectionStats
NewConnectionStats ==
  [total_latency_ms |-> 0, min_latency_ms |-> MinLatencyInit, max_latency_ms |-> 0,
   message_count |-> 0, dropped_count |-> 0, delivered_count |-> 0]

\* stats_map_[key]: the entry, default-constructed when there is none
StatsEntry(stats, key) == IF key \in DOMAIN stats THEN stats[key] ELSE NewConnectionStats

\* stats with key's entry set to entry
WithStats(stats, key, entry) ==
  [k \in DOMAIN stats \cup {key} |-> IF k = key THEN entry ELSE stats[k]]

\* NetworkSimulator::recordStats
recordStats(stats, from, to, latency_ms) ==
  LET e == StatsEntry(stats, <<from, to>>) IN
  WithStats(stats, <<from, to>>,
            [e EXCEPT !.total_latency_ms = @ + latency_ms,
                      !.message_count = @ + 1,
                      !.min_latency_ms = Min(@, latency_ms),
                      !.max_latency_ms = Max(@, latency_ms)])

\* NetworkSimulator::getStats, the LatencyStats it returns: all zero for a
\* link without an entry; else the entry's minimum, maximum and count, and
\* the average when the count is positive
getStats(stats, fromNode, toNode) ==
  LET key == <<fromNode, toNode>> IN
  IF key \in DOMAIN stats
  THEN [min_latency_ms |-> stats[key].min_latency_ms,
        max_latency_ms |-> stats[key].max_latency_ms,
        message_count |-> stats[key].message_count,
        avg_latency_ms |-> IF stats[key].message_count > 0
                           THEN stats[key].total_latency_ms \div stats[key].message_count
                           ELSE 0]
  ELSE [min_latency_ms |-> 0, max_latency_ms |-> 0, message_count |-> 0,
        avg_latency_ms |-> 0]

recordPacketStats_drop_uncounted(stats, from, to, dropped) ==
  LET e == StatsEntry(stats, <<from, to>>) IN
  WithStats(stats, <<from, to>>,
            IF dropped THEN e ELSE [e EXCEPT !.delivered_count = @ + 1])

\* NetworkSimulator::recordPacketStats: count the packet as dropped or delivered
recordPacketStats(stats, from, to, dropped) ==
  LET e == StatsEntry(stats, <<from, to>>) IN
  WithStats(stats, <<from, to>>,
            IF dropped THEN [e EXCEPT !.dropped_count = @ + 1]
            ELSE [e EXCEPT !.delivered_count = @ + 1])

isConnectionActive_always(from, to) == TRUE

\* NetworkSimulator::isConnectionActive: no drop of (from, to) is in effect
isConnectionActive(from, to) == <<from, to>> \notin dropped_connections_

\* NetworkSimulator::getPacketLoss: the connection's own config, else the
\* default
getPacketLoss(fromNode, toNode) ==
  IF <<fromNode, toNode>> \in DOMAIN packet_loss_map_
  THEN packet_loss_map_[<<fromNode, toNode>>]
  ELSE default_packet_loss_

\* NetworkSimulator::shouldDropPacket without burst mode: a Bernoulli trial
\* with the probability configured for the link; draw is the trial's outcome
\* when the probability is strictly between 0 and 1
shouldDropPacket(from, to, draw) ==
  \/ getPacketLoss(from, to).probability = 100
  \/ getPacketLoss(from, to).probability > 0 /\ draw

\* the admission decision of enqueueMessage: the link is active and the loss
\* model lets the packet pass
Admitted(from, to, lossDraw) ==
  isConnectionActive(from, to) /\ ~shouldDropPacket(from, to, lossDraw)

\* BurstState of a link that has none in burst_state_map_
NewBurstState == [in_burst |-> FALSE, remaining |-> 0]

burstStart_after_trigger(burst_length) ==
  [in_burst |-> TRUE, remaining |-> burst_length]

\* the BurstState after the trial that enters a burst: the trigger is the
\* first of burst_length drops, burst_length - 1 are left
burstStart(burst_length) ==
  [in_burst |-> burst_length > 1, remaining |-> burst_length - 1]

\* NetworkSimulator::shouldDropPacket on a link with configuration config
\* and burst state state; trial is the outcome of the Bernoulli trial, read
\* when the probability is strictly between 0 and 1.  In a burst: drop and
\* count it down.  Not in a burst: the trial decides, and with burst_mode a
\* success enters a burst.
shouldDropPacketStep(config, state, trial) ==
  LET success == \/ config.probability = 100
                 \/ config.probability > 0 /\ trial
  IN IF config.burst_mode /\ state.in_burst
     THEN [drop |-> TRUE,
           state |-> [in_burst |-> state.remaining - 1 > 0,
                      remaining |-> state.remaining - 1]]
     ELSE IF config.burst_mode /\ success
     THEN [drop |-> TRUE, state |-> burstStart(config.burst_length)]
     ELSE [drop |-> success, state |-> state]

\* burst_state_map_[link], an absent entry being a new BurstState
BurstStateOf(link) ==
  IF link \in DOMAIN burst_state_map_ THEN burst_state_map_[link] ELSE NewBurstState

\* lastNet when the last call has nothing to record
NoNet ==
  [op |-> "none", from |-> 0, to |-> 0, currentTime |-> 0, wasActive |-> TRUE,
   lossProbability |-> 0, statsBefore |-> NewConnectionStats,
   before |-> <<>>, ready |-> <<>>, ok |-> TRUE, groups |-> <<>>,
   config |-> <<>>, pre |-> <<>>, prev |-> <<>>]

\* history: the links' and the nodes' configuration as a call finds it
Snapshot ==
  [dropped |-> dropped_connections_,
   default_latency |-> default_latency_, latency_map |-> latency_map_,
   default_packet_loss |-> default_packet_loss_, packet_loss_map |-> packet_loss_map_,
   stats |-> stats_map_,
   partition |-> [id \in DOMAIN nodes |-> nodes[id].partition_id]]

\* lastNet of a call op on (from, to) that returned (ok) or threw; prev is
\* the call before it and what that one found
CallRecord(op, from, to, ok) ==
  [NoNet EXCEPT !.op = op, !.from = from, !.to = to, !.ok = ok, !.pre = Snapshot,
                !.prev = IF lastNet.pre = <<>> THEN <<>>
                         ELSE [op |-> lastNet.op, from |-> lastNet.from,
                               to |-> lastNet.to, ok |-> lastNet.ok,
                               pre |-> lastNet.pre]]

\* the latency config the claims expect enqueueMessage to use for a link
EffectiveLatency(link) ==
  IF link \in DOMAIN latency_map_ THEN latency_map_[link] ELSE default_latency_

\* lastNet of an enqueueMessage call
EnqueueRecord(from, to, currentTime) ==
  [NoNet EXCEPT !.op = "enqueueMessage", !.from = from, !.to = to,
                !.currentTime = currentTime,
                !.wasActive = <<from, to>> \notin dropped_connections_,
                !.lossProbability = getPacketLoss(from, to).probability,
                !.statsBefore = StatsEntry(stats_map_, <<from, to>>),
                !.before = message_queue_]

\* the seeds a simulator is constructed with
Seeds == {1, 2}

\* NetworkSimulator(uint32_t seed): rng_(seed).  The generator's state is its
\* seed and the number of samples drawn from it.
NetworkSimulator(seed) == [seed |-> seed, count |-> 0]

\* what std::mt19937 yields, reduced to three outcomes
Raw == 0..2

SampleKey_per_instance(instance, rng) == <<instance, rng.seed, rng.count>>

\* the place of the generator's next output in the table of outputs: fixed
\* by the seed and by the number of samples drawn before, the same for
\* every instance
SampleKey(instance, rng) == <<rng.seed, rng.count>>

\* the variate a distribution makes of the generator's output
DrawOf(config, raw) ==
  IF raw = 0 THEN 2 * config.min_ms - 1
  ELSE IF raw = 1 THEN config.min_ms + config.max_ms
  ELSE 2 * config.max_ms + 1

\* the DelayedMessage enqueueMessage builds: the message's text is its
\* number; enqueueTime and config are history
NewDelayedMessage(from, to, message, currentTime, latency_ms) ==
  [from |-> from, to |-> to, message |-> message,
   deliveryTime |-> currentTime + latency_ms,
   enqueueTime |-> currentTime,
   config |-> EffectiveLatency(<<from, to>>)]

\* the samples an enqueueMessage call draws from rng_: one for the loss
\* decision when the link is active and its loss probability is strictly
\* between 0 and 1, one for the latency when the packet is admitted and
\* min_ms < max_ms
LossSampled(from, to) ==
  /\ isConnectionActive(from, to)
  /\ getPacketLoss(from, to).probability > 0
  /\ getPacketLoss(from, to).probability < 100
SamplesDrawn(from, to, lossDraw) ==
  (IF LossSampled(from, to) THEN 1 ELSE 0)
  + (IF Admitted(from, to, lossDraw)
        /\ getLatency(from, to).min_ms # getLatency(from, to).max_ms
     THEN 1 ELSE 0)

\* NetworkSimulator::enqueueMessage with what the generator yields: lossDraw
\* is the outcome of the loss trial, draw the latency variate.  Not
\* admitted (the link is inactive, or the loss model drops the packet):
\* record the drop and return.  Admitted: sample the latency, record it,
\* push the message with deliveryTime = currentTime + latency.
EnqueueMessageWith(from, to, currentTime, lossDraw, draw) ==
  /\ nextMsg < MaxMessages
  /\ IF Admitted(from, to, lossDraw)
     THEN LET config == getLatency(from, to)
              latency_ms == calculateLatency(config, draw)
              delayed == NewDelayedMessage(from, to, nextMsg, currentTime, latency_ms)
          IN /\ stats_map_' = recordPacketStats(
                                recordStats(stats_map_, from, to, latency_ms),
                                from, to, FALSE)
             /\ message_queue_' = PushHeap("message", message_queue_, delayed)
             /\ fate' = [id \in DOMAIN fate \cup {nextMsg} |->
                           IF id = nextMsg THEN [returned |-> 0, cleared |-> FALSE]
                           ELSE fate[id]]
     ELSE /\ stats_map_' = recordPacketStats(stats_map_, from, to, TRUE)
          /\ UNCHANGED <<message_queue_, fate>>
  /\ rng_' = [rng_ EXCEPT !.count = @ + SamplesDrawn(from, to, lossDraw)]
  /\ nextMsg' = nextMsg + 1
  /\ enqueueCalls' = [enqueueCalls EXCEPT ![<<from, to>>] = @ + 1]
  /\ lastNet' = EnqueueRecord(from, to, currentTime)
  /\ UNCHANGED <<default_latency_, latency_map_, default_packet_loss_, packet_loss_map_,
                 dropped_connections_, configCalls, latencyCalls, everDropped>>
  /\ UNCHANGED <<esVars, lastNode>>

\* NetworkSimulator::enqueueMessage, the packet admitted, whatever the
\* generator yields
EnqueueMessage(from, to, currentTime) ==
  /\ \E lossDraw \in BOOLEAN, draw \in Draws(getLatency(from, to)) :
       /\ Admitted(from, to, lossDraw)
       /\ EnqueueMessageWith(from, to, currentTime, lossDraw, draw)
  /\ UNCHANGED <<mt19937, twin, moreVars>>

\* NetworkSimulator::enqueueMessage, the packet not admitted
EnqueueMessageDropped(from, to, currentTime) ==
  /\ \E lossDraw \in BOOLEAN :
       /\ ~Admitted(from, to, lossDraw)
       /\ EnqueueMessageWith(from, to, currentTime, lossDraw, 0)
  /\ UNCHANGED <<mt19937, twin, moreVars>>

RECURSIVE readyLoop_off_by_one(_, _, _)
readyLoop_off_by_one(q, currentTime, ready) ==
  IF q # <<>> /\ q[1].deliveryTime < currentTime
  THEN readyLoop_off_by_one(PopHeap("message", q), currentTime, Append(ready, q[1]))
  ELSE [queue |-> q, ready |-> ready]

RECURSIVE readyLoop_active_only(_, _, _)
readyLoop_active_only(q, currentTime, ready) ==
  IF q # <<>> /\ q[1].deliveryTime <= currentTime
  THEN readyLoop_active_only(PopHeap("message", q), currentTime,
                             IF isConnectionActive(q[1].from, q[1].to)
                             THEN Append(ready, q[1]) ELSE ready)
  ELSE [queue |-> q, ready |-> ready]

\* the while loop of getReadyMessages: copy the top and pop it while it is due
RECURSIVE readyLoop(_, _, _)
readyLoop(q, currentTime, ready) ==
  IF q # <<>> /\ q[1].deliveryTime <= currentTime
  THEN readyLoop(PopHeap("message", q), currentTime, Append(ready, q[1]))
  ELSE [queue |-> q, ready |-> ready]

\* NetworkSimulator::getReadyMessages(currentTime), on this simulator
GetReadyMessagesStep(currentTime) ==
  LET r == readyLoop(message_queue_, currentTime, <<>>) IN
  /\ message_queue_' = r.queue
  /\ fate' = [id \in DOMAIN fate |->
                [fate[id] EXCEPT !.returned =
                   @ + Cardinality({i \in 1..Len(r.ready) : r.ready[i].message = id})]]
  /\ lastNet' = [NoNet EXCEPT !.op = "getReadyMessages", !.currentTime = currentTime,
                              !.before = message_queue_, !.ready = r.ready]
  /\ UNCHANGED <<default_latency_, latency_map_, stats_map_, default_packet_loss_,
                 packet_loss_map_, dropped_connections_, nextMsg, configCalls,
                 latencyCalls, enqueueCalls, everDropped, rng_>>
  /\ UNCHANGED <<esVars, lastNode>>

\* network.getReadyMessages(currentTime)
GetReadyMessages(currentTime) ==
  /\ GetReadyMessagesStep(currentTime)
  /\ UNCHANGED <<mt19937, twin, moreVars>>

\* what an enqueueMessage call on a simulator with generator state rng reads
\* from the generator, outputs being the generator's outputs by place: the
\* loss trial first when one is made, then the latency variate
EnqueueSamples(outputs, instance, rng, from, to) ==
  LET first == outputs[SampleKey(instance, rng)]
      second == outputs[SampleKey(instance, [rng EXCEPT !.count = @ + 1])]
  IN [lossDraw |-> LossSampled(from, to) /\ first = 0,
      draw |-> DrawOf(getLatency(from, to),
                      IF LossSampled(from, to) THEN second ELSE first)]

\* NetworkSimulator::enqueueMessage on a second simulator b that was given
\* the same configuration calls: its own queue and generator, the
\* configuration read from the first
enqueueMessageOnTwin(b, from, to, message, currentTime, lossDraw, draw) ==
  IF Admitted(from, to, lossDraw)
  THEN [b EXCEPT
          !.message_queue_ =
             PushHeap("message", @,
                      NewDelayedMessage(from, to, message, currentTime,
                                        calculateLatency(getLatency(from, to), draw))),
          !.rng_.count = @ + SamplesDrawn(from, to, lossDraw),
          !.dropped = FALSE]
  ELSE [b EXCEPT !.rng_.count = @ + SamplesDrawn(from, to, lossDraw),
                 !.dropped = TRUE]

\* the same enqueueMessage call on both simulators, each reading its own
\* generator; an output read for the first time is any of Raw, one read
\* before is what it was
TwinEnqueue(from, to, currentTime) ==
  LET places(instance, rng) ==
        {SampleKey(instance, rng), SampleKey(instance, [rng EXCEPT !.count = @ + 1])}
      wanted == places(1, rng_) \cup places(2, twin.rng_)
  IN \E outputs \in [wanted -> Raw] :
       /\ \A k \in wanted \cap DOMAIN mt19937 : outputs[k] = mt19937[k]
       /\ LET a == EnqueueSamples(outputs, 1, rng_, from, to)
              b == EnqueueSamples(outputs, 2, twin.rng_, from, to)
          IN /\ EnqueueMessageWith(from, to, currentTime, a.lossDraw, a.draw)
             /\ twin' = enqueueMessageOnTwin(twin, from, to, nextMsg, currentTime,
                                             b.lossDraw, b.draw)
       /\ mt19937' = [k \in DOMAIN mt19937 \cup wanted |->
                        IF k \in wanted THEN outputs[k] ELSE mt19937[k]]
       /\ UNCHANGED moreVars

\* the same getReadyMessages call on both simulators
TwinGetReady(currentTime) ==
  LET r == readyLoop(twin.message_queue_, currentTime, <<>>) IN
  /\ GetReadyMessagesStep(currentTime)
  /\ twin' = [twin EXCEPT !.message_queue_ = r.queue, !.ready = r.ready]
  /\ UNCHANGED <<mt19937, moreVars>>

\* sim.shouldDropPacket(from, to), whatever the generator yields
ShouldDropPacket(from, to) ==
  LET link == <<from, to>>
      config == getPacketLoss(from, to)
      sampled == /\ ~(config.burst_mode /\ BurstStateOf(link).in_burst)
                 /\ config.probability > 0 /\ config.probability < 100
  IN /\ Len(decisions[link]) < MaxDecisions
     /\ \E trial \in BOOLEAN :
          LET r == shouldDropPacketStep(config, BurstStateOf(link), trial) IN
          /\ burst_state_map_' =
               IF config.burst_mode
               THEN [l \in DOMAIN burst_state_map_ \cup {link} |->
                       IF l = link THEN r.state ELSE burst_state_map_[l]]
               ELSE burst_state_map_
          /\ decisions' = [decisions EXCEPT ![link] = Append(@, r.drop)]
     /\ rng_' = [rng_ EXCEPT !.count = @ + (IF sampled THEN 1 ELSE 0)]
     /\ lastNet' = [NoNet EXCEPT !.op = "shouldDropPacket", !.from = from, !.to = to]
     /\ UNCHANGED <<message_queue_, default_latency_, latency_map_, stats_map_,
                    default_packet_loss_, packet_loss_map_, dropped_connections_,
                    nextMsg, configCalls, latencyCalls, enqueueCalls, everDropped, fate>>
     /\ UNCHANGED <<esVars, lastNode, mt19937, twin, mainLoop, loader, factoryVars>>

\* NetworkSimulator::clear: swap the queue with an empty one
Clear ==
  /\ message_queue_ # <<>>
  /\ message_queue_' = <<>>
  /\ fate' = [id \in DOMAIN fate |->
                IF \E i \in 1..Len(message_queue_) : message_queue_[i].message = id
                THEN [fate[id] EXCEPT !.cleared = TRUE] ELSE fate[id]]
  /\ lastNet' = [NoNet EXCEPT !.op = "clear"]
  /\ UNCHANGED <<default_latency_, latency_map_, stats_map_, default_packet_loss_,
                 packet_loss_map_,
                 dropped_connections_, nextMsg, configCalls, latencyCalls, enqueueCalls,
                 everDropped, rng_>>
  /\ UNCHANGED <<esVars, auxVars>>

ResetStats_restoring_links ==
  /\ stats_map_ # <<>>
  /\ stats_map_' = <<>>
  /\ dropped_connections_' = {}
  /\ enqueueCalls' = [l \in Links |-> 0]
  /\ lastNet' = [NoNet EXCEPT !.op = "resetStats"]
  /\ UNCHANGED <<message_queue_, default_latency_, latency_map_, default_packet_loss_,
                 packet_loss_map_, nextMsg, configCalls, latencyCalls, everDropped, fate,
                 rng_>>
  /\ UNCHANGED <<esVars, auxVars>>

\* NetworkSimulator::resetStats
ResetStats ==
  /\ stats_map_ # <<>>
  /\ stats_map_' = <<>>
  /\ enqueueCalls' = [l \in Links |-> 0]
  /\ lastNet' = [NoNet EXCEPT !.op = "resetStats"]
  /\ UNCHANGED <<message_queue_, default_latency_, latency_map_, default_packet_loss_,
                 packet_loss_map_,
                 dropped_connections_, nextMsg, configCalls, latencyCalls, everDropped,
                 fate, rng_>>
  /\ UNCHANGED <<esVars, auxVars>>

\* what every configuration call leaves alone; ok is whether it returned
ConfigCallWith(op, from, to, ok, groups, config) ==
  /\ IF op \in {"setDefaultLatency", "setLatency"}
     THEN latencyCalls < MaxLatencyCalls /\ latencyCalls' = latencyCalls + 1
                                        /\ configCalls' = configCalls
     ELSE configCalls < MaxConfigCalls /\ configCalls' = configCalls + 1
                                      /\ latencyCalls' = latencyCalls
  /\ lastNet' = [CallRecord(op, from, to, ok) EXCEPT !.groups = groups,
                                                     !.config = config]
  /\ UNCHANGED <<message_queue_, stats_map_, nextMsg, enqueueCalls, fate, rng_>>
  /\ UNCHANGED auxVars

ConfigCall(op, from, to, ok) == ConfigCallWith(op, from, to, ok, <<>>, <<>>)

\* m with key's entry set to value
WithEntry(m, key, value) ==
  [k \in DOMAIN m \cup {key} |-> IF k = key THEN value ELSE m[k]]

\* NetworkSimulator::setDefaultLatency: throws on an invalid config
SetDefaultLatency(config) ==
  /\ ConfigCallWith("setDefaultLatency", 0, 0, isValid(config), <<>>, config)
  /\ default_latency_' = IF isValid(config) THEN config ELSE default_latency_
  /\ UNCHANGED <<latency_map_, default_packet_loss_, packet_loss_map_,
                 dropped_connections_, everDropped>>
  /\ UNCHANGED esVars

\* NetworkSimulator::setLatency: throws on an invalid config
SetLatency(fromNode, toNode, config) ==
  /\ ConfigCallWith("setLatency", fromNode, toNode, isValid(config), <<>>, config)
  /\ latency_map_' =
       IF isValid(config)
       THEN [k \in DOMAIN latency_map_ \cup {<<fromNode, toNode>>} |->
               IF k = <<fromNode, toNode>> THEN config ELSE latency_map_[k]]
       ELSE latency_map_
  /\ UNCHANGED <<default_latency_, default_packet_loss_, packet_loss_map_,
                 dropped_connections_, everDropped>>
  /\ UNCHANGED esVars

\* NetworkSimulator::setDefaultPacketLoss: throws on an invalid config
SetDefaultPacketLoss(config) ==
  /\ ConfigCallWith("setDefaultPacketLoss", 0, 0, isValidLoss(config), <<>>, config)
  /\ default_packet_loss_' = IF isValidLoss(config) THEN config ELSE default_packet_loss_
  /\ UNCHANGED <<default_latency_, latency_map_, packet_loss_map_,
                 dropped_connections_, everDropped>>
  /\ UNCHANGED esVars

\* NetworkSimulator::setPacketLoss: throws on an invalid config
SetPacketLoss(fromNode, toNode, config) ==
  /\ ConfigCallWith("setPacketLoss", fromNode, toNode, isValidLoss(config), <<>>,
                    config)
  /\ packet_loss_map_' =
       IF isValidLoss(config)
       THEN WithEntry(packet_loss_map_, <<fromNode, toNode>>, config)
       ELSE packet_loss_map_
  /\ UNCHANGED <<default_latency_, latency_map_, default_packet_loss_,
                 dropped_connections_, everDropped>>
  /\ UNCHANGED esVars

dropConnection_both_ways(dropped, from, to) == dropped \cup {<<from, to>>, <<to, from>>}

\* NetworkSimulator::dropConnection: the directed link becomes inactive
dropConnection(dropped, from, to) == dropped \cup {<<from, to>>}

\* NetworkSimulator::restoreConnection: the directed link becomes active
restoreConnection(dropped, from, to) == dropped \ {<<from, to>>}

restoreAllConnections_none(dropped) == dropped

\* NetworkSimulator::restoreAllConnections: every link becomes active
restoreAllConnections(dropped) == {}

\* network.dropConnection(from, to)
DropConnection(from, to) ==
  /\ ConfigCall("dropConnection", from, to, TRUE)
  /\ dropped_connections_' = dropConnection(dropped_connections_, from, to)
  /\ everDropped' = everDropped \cup {<<from, to>>}
  /\ UNCHANGED <<default_latency_, latency_map_, default_packet_loss_, packet_loss_map_>>
  /\ UNCHANGED esVars

\* network.restoreConnection(from, to)
RestoreConnection(from, to) ==
  /\ ConfigCall("restoreConnection", from, to, TRUE)
  /\ dropped_connections_' = restoreConnection(dropped_connections_, from, to)
  /\ UNCHANGED <<default_latency_, latency_map_, default_packet_loss_, packet_loss_map_,
                 everDropped>>
  /\ UNCHANGED esVars

\* network.restoreAllConnections()
RestoreAllConnections ==
  /\ ConfigCall("restoreAllConnections", 0, 0, TRUE)
  /\ dropped_connections_' = restoreAllConnections(dropped_connections_)
  /\ UNCHANGED <<default_latency_, latency_map_, default_packet_loss_, packet_loss_map_,
                 everDropped>>
  /\ UNCHANGED esVars

\* ----------------------------------------------- link and partition events
\* ConnectionDropEvent::execute: drop the connection in both directions
LinkDrop(fromNode, toNode) ==
  /\ ConfigCall("LinkDrop", fromNode, toNode, TRUE)
  /\ dropped_connections_' =
       dropConnection(dropConnection(dropped_connections_, fromNode, toNode),
                      toNode, fromNode)
  /\ everDropped' = everDropped \cup {<<fromNode, toNode>>, <<toNode, fromNode>>}
  /\ UNCHANGED <<default_latency_, latency_map_, default_packet_loss_, packet_loss_map_>>
  /\ UNCHANGED esVars

\* ConnectionRestoreEvent::execute: restore the connection in both directions
LinkRestore(fromNode, toNode) ==
  /\ ConfigCall("LinkRestore", fromNode, toNode, TRUE)
  /\ dropped_connections_' =
       restoreConnection(restoreConnection(dropped_connections_, fromNode, toNode),
                         toNode, fromNode)
  /\ UNCHANGED <<default_latency_, latency_map_, default_packet_loss_, packet_loss_map_,
                 everDropped>>
  /\ UNCHANGED esVars

LinkDegrade_one_way(fromNode, toNode, latencyMs, packetLoss) ==
  LET latency == [min_ms |-> latencyMs, max_ms |-> uint32_times2(latencyMs),
                  distribution |-> "UNIFORM"]
      loss == [probability |-> packetLoss, burst_mode |-> FALSE, burst_length |-> 3]
  IN
  /\ ConfigCallWith("LinkDegrade", fromNode, toNode,
                    isValid(latency) /\ isValidLoss(loss), <<>>,
                    [latencyMs |-> latencyMs, packetLoss |-> packetLoss])
  /\ latency_map_' =
       IF isValid(latency)
       THEN WithEntry(latency_map_, <<fromNode, toNode>>, latency)
       ELSE latency_map_
  /\ packet_loss_map_' =
       IF isValid(latency) /\ isValidLoss(loss)
       THEN WithEntry(packet_loss_map_, <<fromNode, toNode>>, loss)
       ELSE packet_loss_map_
  /\ UNCHANGED <<default_latency_, default_packet_loss_, dropped_connections_,
                 everDropped>>
  /\ UNCHANGED esVars

\* ConnectionDegradeEvent::execute: setLatency in both directions with
\* {latencyMs, latencyMs * 2 (in uint32_t), UNIFORM}, then setPacketLoss in both
\* directions with {packetLoss, no burst, burst_length 3}; the first call that
\* throws ends it, and what the calls before it stored stays.  lastNet.config
\* is the event's latency and packet loss.
LinkDegrade(fromNode, toNode, latencyMs, packetLoss) ==
  LET latency == [min_ms |-> latencyMs, max_ms |-> uint32_times2(latencyMs),
                  distribution |-> "UNIFORM"]
      loss == [probability |-> packetLoss, burst_mode |-> FALSE, burst_length |-> 3]
  IN
  /\ ConfigCallWith("LinkDegrade", fromNode, toNode,
                    isValid(latency) /\ isValidLoss(loss), <<>>,
                    [latencyMs |-> latencyMs, packetLoss |-> packetLoss])
  /\ latency_map_' =
       IF isValid(latency)
       THEN WithEntry(WithEntry(latency_map_, <<fromNode, toNode>>, latency),
                      <<toNode, fromNode>>, latency)
       ELSE latency_map_
  /\ packet_loss_map_' =
       IF isValid(latency) /\ isValidLoss(loss)
       THEN WithEntry(WithEntry(packet_loss_map_, <<fromNode, toNode>>, loss),
                      <<toNode, fromNode>>, loss)
       ELSE packet_loss_map_
  /\ UNCHANGED <<default_latency_, default_packet_loss_, dropped_connections_,
                 everDropped>>
  /\ UNCHANGED esVars

\* the group lists partition events are built from: vectors of vectors of
\* ids.  The last three are a list with a node in two groups, a list of one
\* group and a list with an empty group.
PartitionGroups ==
  { << <<1>>, <<2>> >>,
    << <<1, 2>>, <<UnknownNodeId>> >>,
    << <<2>>, <<1, UnknownNodeId>> >>,
    << <<UnknownNodeId>>, <<2>>, <<1>> >>,
    << <<1, 2>>, <<2, UnknownNodeId>> >>,
    << <<1, 2>> >>,
    << <<1>>, <<>> >> }

\* NetworkPartitionEvent's constructor: throws unless there are at least two
\* groups and none is empty
NetworkPartitionEvent(partitionGroups) ==
  /\ Len(partitionGroups) >= 2
  /\ \A i \in 1..Len(partitionGroups) : partitionGroups[i] # <<>>

\* dropConnectionsBetweenGroups, the loop over group2 for one node1
RECURSIVE dropConnectionsToGroup(_, _, _)
dropConnectionsToGroup(dropped, node1, group2) ==
  IF group2 = <<>> THEN dropped
  ELSE dropConnectionsToGroup(
         dropConnection(dropConnection(dropped, node1, Head(group2)),
                        Head(group2), node1),
         node1, Tail(group2))

\* NetworkPartitionEvent::dropConnectionsBetweenGroups
RECURSIVE dropConnectionsBetweenGroups(_, _, _)
dropConnectionsBetweenGroups(dropped, group1, group2) ==
  IF group1 = <<>> THEN dropped
  ELSE dropConnectionsBetweenGroups(
         dropConnectionsToGroup(dropped, Head(group1), group2),
         Tail(group1), group2)

\* the loops of NetworkPartitionEvent::execute over i and over j > i
RECURSIVE dropBetweenAllGroups(_, _, _, _)
dropBetweenAllGroups(dropped, groups, i, j) ==
  IF i > Len(groups) THEN dropped
  ELSE IF j > Len(groups) THEN dropBetweenAllGroups(dropped, groups, i + 1, i + 2)
  ELSE dropBetweenAllGroups(
         dropConnectionsBetweenGroups(dropped, groups[i], groups[j]),
         groups, i, j + 1)

setPartitionId_zero_based(n, partitionId) == [n EXCEPT !.partition_id = partitionId - 1]

\* VirtualNode::setPartitionId
setPartitionId(n, partitionId) == [n EXCEPT !.partition_id = partitionId]

\* the second loop of NetworkPartitionEvent::execute: each node the manager
\* has that group i (1-based here) lists is tagged i, a later group
\* overriding an earlier one
markPartitions(ns, groups) ==
  [id \in DOMAIN ns |->
     LET mine == {i \in 1..Len(groups) : \E k \in 1..Len(groups[i]) : groups[i][k] = id}
     IN IF mine = {} THEN ns[id]
        ELSE setPartitionId(ns[id], CHOOSE i \in mine : \A j \in mine : j <= i)]

\* a NetworkPartitionEvent built from partitionGroups and executed; when the
\* constructor throws there is no event to execute
PartitionNetwork(partitionGroups) ==
  /\ ConfigCallWith("PartitionNetwork", 0, 0, NetworkPartitionEvent(partitionGroups),
                    partitionGroups, <<>>)
  /\ IF NetworkPartitionEvent(partitionGroups)
     THEN /\ dropped_connections_' =
               dropBetweenAllGroups(dropped_connections_, partitionGroups, 1, 2)
          /\ nodes' = markPartitions(nodes, partitionGroups)
     ELSE UNCHANGED <<dropped_connections_, nodes>>
  /\ everDropped' = everDropped \cup dropped_connections_'
  /\ UNCHANGED <<default_latency_, latency_map_, default_packet_loss_, packet_loss_map_>>
  /\ UNCHANGED <<eventQueue_, clock, nextSeq, lastCall, crashHistory>>

\* NetworkHealEvent::execute: restore all connections, clear every node's
\* partition id
HealNetwork ==
  /\ ConfigCall("HealNetwork", 0, 0, TRUE)
  /\ dropped_connections_' = restoreAllConnections(dropped_connections_)
  /\ nodes' = [id \in DOMAIN nodes |-> setPartitionId(nodes[id], 0)]
  /\ UNCHANGED <<default_latency_, latency_map_, default_packet_loss_, packet_loss_map_,
                 everDropped>>
  /\ UNCHANGED <<eventQueue_, clock, nextSeq, lastCall, crashHistory>>

\* the times getReadyMessages is called with: each queued message's
\* delivery time, and the millisecond before the earliest of them
ReadyTimes ==
  LET due == {message_queue_[i].deliveryTime : i \in 1..Len(message_queue_)} IN
  IF due = {} THEN {0}
  ELSE due \cup {Max(0, (CHOOSE d \in due : \A e \in due : d <= e) - 1)}

\* the state after NetworkSimulator(seed)
InitSeeded(seed) ==
  /\ message_queue_ = <<>>
  /\ default_latency_ = [min_ms |-> 10, max_ms |-> 50, distribution |-> "NORMAL"]
  /\ latency_map_ = <<>>
  /\ stats_map_ = <<>>
  /\ default_packet_loss_ = [probability |-> 0, burst_mode |-> FALSE, burst_length |-> 3]
  /\ packet_loss_map_ = <<>>
  /\ dropped_connections_ = {}
  /\ nextMsg = 0
  /\ configCalls = 0
  /\ latencyCalls = 0
  /\ enqueueCalls = [l \in Links |-> 0]
  /\ everDropped = {}
  /\ fate = <<>>
  /\ lastNet = NoNet
  /\ rng_ = NetworkSimulator(seed)

\* the state after NetworkSimulator(): rng_ is seeded from
\* std::random_device, with some seed.  The callers of enqueueMessage below
\* take every outcome of the generator, so which seed does not matter to them.
InitNS == InitSeeded(CHOOSE seed \in Seeds : TRUE)

InitES ==
  /\ eventQueue_ = <<>>
  /\ nodes = [id \in NodeIds |-> NewNode]
  /\ clock = 0
  /\ nextSeq = 0
  /\ lastCall = NoCall
  /\ crashHistory = [id \in NodeIds |-> [executed |-> 0, onRunning |-> 0]]

NextES ==
  \/ \E ev \in TimelineEvents, time \in 0..MaxTime :
       ScheduleEvent(ev.type, ev.nodeId, time)
  \/ \E currentTime \in 0..MaxTime : ProcessEvents(currentTime)

\* the delayed-delivery queue under changing latency configurations
NextNS ==
  \/ \E l \in Links, currentTime \in 0..MaxNowMs :
       EnqueueMessage(l[1], l[2], currentTime)
  \/ \E currentTime \in ReadyTimes : GetReadyMessages(currentTime)
  \/ Clear
  \/ /\ latencyCalls < MaxQueueLatencyCalls
     /\ \/ \E config \in LatencyConfigs : SetDefaultLatency(config)
        \/ \E config \in LatencyConfigs : SetLatency(1, 2, config)

\* admission and its statistics under link drops and packet loss
NextAdm ==
  \/ \E l \in Links : EnqueueMessage(l[1], l[2], MaxNowMs)
  \/ \E l \in Links : EnqueueMessageDropped(l[1], l[2], MaxNowMs)
  \/ ResetStats
  \/ \E config \in PacketLossConfigs : SetDefaultPacketLoss(config)
  \/ \E l \in Links : DropConnection(l[1], l[2])
  \/ \E l \in Links : RestoreConnection(l[1], l[2])

\* the connections link events name: one between two nodes, and one to an
\* id the manager does not have
EventLinks == {<<1, 2>>, <<UnknownNodeId, 2>>}

\* link control, link events and partitions
NextLink ==
  \/ \E l \in AllLinks : DropConnection(l[1], l[2])
  \/ \E l \in AllLinks : RestoreConnection(l[1], l[2])
  \/ RestoreAllConnections
  \/ \E l \in EventLinks : LinkDrop(l[1], l[2])
  \/ \E l \in EventLinks : LinkRestore(l[1], l[2])
  \/ \E groups \in PartitionGroups : PartitionNetwork(groups)
  \/ HealNetwork
  \/ \E packetLoss \in {30, 150} : LinkDegrade(1, 2, 5, packetLoss)
  \/ \E l \in Links : EnqueueMessage(l[1], l[2], MaxNowMs)
  \/ \E l \in Links : EnqueueMessageDropped(l[1], l[2], MaxNowMs)

\* the latencies link degradation events are built with, as uint32_t: 5,
\* 2^30 (whose double is 2^31), 2^31 (whose double wraps to 0) and
\* 3000000000 (whose double wraps to 1705032704)
DegradeLatencies == {5, Pow30, (0 - Int32Max) - 1, 0 - 1294967296}
\* their packet loss, in percent: 0.3, and -0.1 and 1.5, which are not
\* probabilities
DegradeLosses == {30, 0 - 10, 150}

\* the latency and packet loss settings, valid and not
NextCfg ==
  /\ configCalls + latencyCalls < MaxFrameCalls
  /\ \/ \E config \in LatencyConfigs : SetDefaultLatency(config)
     \/ \E l \in Links, config \in LatencyConfigs : SetLatency(l[1], l[2], config)
     \/ \E config \in PacketLossConfigs \cup InvalidPacketLossConfigs :
          SetDefaultPacketLoss(config)
     \/ \E l \in Links, config \in PacketLossConfigs \cup InvalidPacketLossConfigs :
          SetPacketLoss(l[1], l[2], config)

\* burst mode: each link is configured before the first decision on it, then
\* shouldDropPacket is called on it
NextBurst ==
  \/ \E l \in Links : ShouldDropPacket(l[1], l[2])
  \/ \E l \in Links, config \in BurstConfigs :
       /\ decisions[l] = <<>>
       /\ SetPacketLoss(l[1], l[2], config)

\* two simulators constructed with one seed and given the same calls: the
\* configuration calls, enqueueMessage and getReadyMessages
NextDet ==
  \/ \E currentTime \in ReadyTimes : TwinGetReady(currentTime)
  \/ /\ nextMsg + configCalls + latencyCalls < MaxDetCalls
     /\ \/ \E l \in Links : TwinEnqueue(l[1], l[2], MaxNowMs)
        \/ \E config \in LatencyConfigs : SetDefaultLatency(config)
        \/ \E config \in PacketLossConfigs : SetPacketLoss(1, 2, config)
        \/ DropConnection(2, 1)

\* ---------------------------------------------------- calls on the nodes
\* lastNode before any call
NoNodeCall == [op |-> "none", id |-> 0, ok |-> TRUE, before |-> NewNode]

\* a call on node id that ends as r = [ok, node] says
NodeCall(op, id, r) ==
  /\ nodes' = [nodes EXCEPT ![id] = r.node]
  /\ lastNode' = [op |-> op, id |-> id, ok |-> r.ok, before |-> nodes[id]]
  /\ UNCHANGED <<eventQueue_, clock, nextSeq, lastCall, crashHistory>>
  /\ UNCHANGED <<nsVars, mt19937, twin, moreVars>>

\* node->start()
Start(id) == NodeCall("start", id, start(nodes[id], clock))

\* node->stop()
Stop(id) == NodeCall("stop", id, [ok |-> TRUE, node |-> stop(nodes[id], clock)])

\* node->crash()
Crash(id) ==
  /\ nodes[id].crash_count < MaxCrashes
  /\ NodeCall("crash", id, [ok |-> TRUE, node |-> crash(nodes[id], clock)])

\* node->restart()
Restart(id) == NodeCall("restart", id, restart(nodes[id], clock))

\* the entries of a node's fwLog that are op
FwCount(n, op) == Cardinality({i \in 1..Len(n.fwLog) : n.fwLog[i].op = op})

\* node->update()
Update(id) ==
  /\ FwCount(nodes[id], "loop") < MaxLoops
  /\ NodeCall("update", id, [ok |-> TRUE, node |-> update(nodes[id])])

\* node->loadFirmware(std::move(firmware)) with a fresh instance
LoadFirmware(id) ==
  /\ FwCount(nodes[id], "load") < MaxLoads
  /\ NodeCall("loadFirmware", id,
              [ok |-> TRUE,
               node |-> loadFirmware(nodes[id], FwCount(nodes[id], "load") + 1)])

\* a node and its firmware under direct calls
NextFW ==
  \/ \E id \in NodeIds : LoadFirmware(id)
  \/ \E id \in NodeIds : Start(id)
  \/ \E id \in NodeIds : Stop(id)
  \/ \E id \in NodeIds : Crash(id)
  \/ \E id \in NodeIds : Restart(id)
  \/ \E id \in NodeIds : Update(id)

\* every operation on the network simulator, every link and partition event
\* and the lifecycle of a node, side by side
NextFrame ==
  \/ /\ nextMsg + configCalls + latencyCalls < MaxFrameCalls
     /\ \/ DropConnection(1, 2)
        \/ RestoreConnection(1, 2)
        \/ RestoreAllConnections
        \/ LinkDrop(UnknownNodeId, 2)
        \/ LinkRestore(1, 2)
        \/ PartitionNetwork(<< <<1>>, <<2>> >>)
        \/ HealNetwork
        \/ LinkDegrade(1, 2, 5, 30)
        \/ EnqueueMessage(1, 2, MaxNowMs)
        \/ EnqueueMessageDropped(1, 2, MaxNowMs)
        \/ \E config \in LatencyConfigs : SetDefaultLatency(config)
        \/ \E config \in LatencyConfigs : SetLatency(1, 2, config)
        \/ \E config \in PacketLossConfigs : SetDefaultPacketLoss(config)
        \/ \E config \in PacketLossConfigs : SetPacketLoss(1, 2, config)
  \/ \E currentTime \in ReadyTimes : GetReadyMessages(currentTime)
  \/ Clear
  \/ ResetStats
  \/ Start(1)
  \/ Stop(1)
  \/ Crash(1)
  \/ Restart(1)
  \/ Update(1)

\* ------------------------------------------------------------ node manager
\* the node ids createNode is called with: 0, and more ids than the
\* manager has room for
ManagerIds == 0..(MAX_NODES + 1)

createNode_no_limit(ns, nodeId) ==
  IF nodeId = 0 THEN [ok |-> FALSE, error |-> "invalid_argument", nodes |-> ns]
  ELSE IF nodeId \in DOMAIN ns
  THEN [ok |-> FALSE, error |-> "runtime_error", nodes |-> ns]
  ELSE [ok |-> TRUE, error |-> "none",
        nodes |-> [k \in DOMAIN ns \cup {nodeId} |->
                     IF k = nodeId THEN NewNode ELSE ns[k]]]

\* NodeManager::createNode: throws on id 0, on an id the map has and on a
\* full map, in this order; else constructs the node and stores it
createNode(ns, nodeId) ==
  IF nodeId = 0 THEN [ok |-> FALSE, error |-> "invalid_argument", nodes |-> ns]
  ELSE IF nodeId \in DOMAIN ns
  THEN [ok |-> FALSE, error |-> "runtime_error", nodes |-> ns]
  ELSE IF Cardinality(DOMAIN ns) >= MAX_NODES
  THEN [ok |-> FALSE, error |-> "runtime_error", nodes |-> ns]
  ELSE [ok |-> TRUE, error |-> "none",
        nodes |-> [k \in DOMAIN ns \cup {nodeId} |->
                     IF k = nodeId THEN NewNode ELSE ns[k]]]

removeNode_stop_only(ns, nodeId, now) ==
  IF nodeId \notin DOMAIN ns THEN [ok |-> FALSE, nodes |-> ns]
  ELSE [ok |-> TRUE,
        removed |-> IF ns[nodeId].running_ THEN stop(ns[nodeId], now) ELSE ns[nodeId],
        nodes |-> [ns EXCEPT ![nodeId] = stop(@, now)]]

\* NodeManager::removeNode: false on an id the map does not have; else
\* stops the node if it is running and erases it
removeNode(ns, nodeId, now) ==
  IF nodeId \notin DOMAIN ns THEN [ok |-> FALSE, nodes |-> ns]
  ELSE [ok |-> TRUE,
        removed |-> IF ns[nodeId].running_ THEN stop(ns[nodeId], now) ELSE ns[nodeId],
        nodes |-> [k \in DOMAIN ns \ {nodeId} |-> ns[k]]]

\* a call on the manager: lastNode keeps the map the call found
ManagerCall(op, id, r) ==
  /\ nodes' = r.nodes
  /\ lastNode' = [op |-> op, id |-> id, ok |-> r.ok, before |-> nodes]
  /\ UNCHANGED <<eventQueue_, clock, nextSeq, lastCall, crashHistory>>
  /\ UNCHANGED <<nsVars, mt19937, twin, moreVars>>

\* manager.createNode(config) with config.nodeId = nodeId
CreateNode(nodeId) == ManagerCall("createNode", nodeId, createNode(nodes, nodeId))

\* manager.removeNode(nodeId)
RemoveNode(nodeId) == ManagerCall("removeNode", nodeId, removeNode(nodes, nodeId, clock))

\* ---------------------------------------------------- the firmware factory
\* the names firmware is registered under, and the creators: creator c
\* builds a firmware of kind c
FirmwareNames == {"A", "B", "C"}
Creators == 1..2

\* lastFactory before any call; result is the bool a call returned, built
\* the kind of the firmware create returned (0: nullptr)
NoFactoryCall ==
  [op |-> "none", name |-> "", creator |-> 0, result |-> TRUE, built |-> 0,
   before |-> <<>>]

registerFirmware_overwrite(creators, name, creator) ==
  [result |-> name \notin DOMAIN creators,
   creators |-> [n \in DOMAIN creators \cup {name} |->
                   IF n = name THEN creator ELSE creators[n]]]

\* FirmwareFactory::registerFirmware: false when the name is registered,
\* else store the creator and return true
registerFirmware(creators, name, creator) ==
  IF name \in DOMAIN creators THEN [result |-> FALSE, creators |-> creators]
  ELSE [result |-> TRUE,
        creators |-> [n \in DOMAIN creators \cup {name} |->
                        IF n = name THEN creator ELSE creators[n]]]

\* FirmwareFactory::create: nullptr for a name that is not registered, else
\* what the creator stored under the name builds
create(creators, name) ==
  IF name \notin DOMAIN creators THEN 0 ELSE creators[name]

\* FirmwareFactory::isRegistered
isRegistered(creators, name) == name \in DOMAIN creators

\* FirmwareFactory::unregisterFirmware: erase, true if an entry was erased
unregisterFirmware(creators, name) ==
  [result |-> name \in DOMAIN creators,
   creators |-> [n \in DOMAIN creators \ {name} |-> creators[n]]]

\* a call on the factory: lastFactory keeps the registry the call found
FactoryCall(op, name, creator, result, built, creators) ==
  /\ creators_' = creators
  /\ lastFactory' = [op |-> op, name |-> name, creator |-> creator, result |-> result,
                     built |-> built, before |-> creators_]
  /\ UNCHANGED <<esVars, nsVars, lastNode, mt19937, twin, burstVars, mainLoop, loader>>

\* FirmwareFactory::instance().registerFirmware(name, creator)
RegisterFirmware(name, creator) ==
  LET r == registerFirmware(creators_, name, creator) IN
  FactoryCall("registerFirmware", name, creator, r.result, 0, r.creators)

\* FirmwareFactory::instance().create(name)
Create(name) ==
  FactoryCall("create", name, 0, TRUE, create(creators_, name), creators_)

\* FirmwareFactory::instance().unregisterFirmware(name)
UnregisterFirmware(name) ==
  LET r == unregisterFirmware(creators_, name) IN
  FactoryCall("unregisterFirmware", name, 0, r.result, 0, r.creators)

\* FirmwareFactory::instance().clear()
ClearFactory == FactoryCall("clear", "", 0, TRUE, 0, <<>>)

\* the registry under the calls of its interface
NextFactory ==
  \/ \E name \in FirmwareNames, creator \in Creators : RegisterFirmware(name, creator)
  \/ \E name \in FirmwareNames : Create(name)
  \/ \E name \in FirmwareNames : UnregisterFirmware(name)
  \/ ClearFactory

\* VirtualNode::loadFirmware(const std::string&): true on the empty name;
\* else firmware_ takes what FirmwareFactory::instance().create(name) returns,
\* the null pointer for a name that is not registered, and the result is
\* whether it is non-null.  fresh is the instance a creator builds.
loadFirmwareNamed(n, creators, firmwareName, fresh) ==
  IF firmwareName = "" THEN [ok |-> TRUE, node |-> n]
  ELSE IF create(creators, firmwareName) = 0
  THEN [ok |-> FALSE, node |-> [n EXCEPT !.firmware_ = 0]]
  ELSE [ok |-> TRUE,
        node |-> [n EXCEPT !.firmware_ = fresh,
                           !.fwLog = Append(@, FwCall("load", fresh, n))]]

\* node->loadFirmware(firmwareName)
LoadFirmwareNamed(id, firmwareName) ==
  /\ FwCount(nodes[id], "load") < MaxLoads
  /\ NodeCall("loadFirmwareNamed", id,
              loadFirmwareNamed(nodes[id], creators_, firmwareName,
                                FwCount(nodes[id], "load") + 1))

\* the names a node's firmware is loaded by: the registered names and none
LoadNames == {"", "A", "B"}

\* a node that loads its firmware by name while firmware is registered and
\* unregistered
NextFWName ==
  \/ \E name \in LoadNames \ {""}, creator \in Creators : RegisterFirmware(name, creator)
  \/ \E name \in LoadNames \ {""} : UnregisterFirmware(name)
  \/ \E firmwareName \in LoadNames : LoadFirmwareNamed(1, firmwareName)
  \/ LoadFirmware(1)
  \/ Start(1)
  \/ Stop(1)
  \/ Update(1)

\* ------------------------------------------------------- the config loader
\* std::to_string(i), a string being the sequence of its characters
to_string(i) == <<<<"0">>, <<"1">>, <<"2">>, <<"3">>, <<"4">>>>[i + 1]

\* the node ids scenarios name: "a", "n0" and, for a node no scenario
\* declares, "z"; templates have the prefix "n"
ExplicitIds == {<<"a">>, <<"n", "0">>}
UnknownId == <<"z">>
TemplatePrefix == <<"n">>
\* the strings that become node ids: std::hash is applied to these
HashedStrings ==
  ExplicitIds \cup {TemplatePrefix \o to_string(i) : i \in 0..(MaxTemplateCount - 1)}

\* what std::hash<std::string> yields, a size_t: lo is its low 31 bits, hi
\* the bits above them
HashValues == {[hi |-> 0, lo |-> 0], [hi |-> 0, lo |-> 1],
               [hi |-> 1, lo |-> 1], [hi |-> 0, lo |-> 5]}

\* ConfigLoader::generateNodeId: hash & 0x7FFFFFFF, and 1 for 0
generateNodeId(hasher, id_str) ==
  LET hash == hasher[id_str]
      node_id == hash.lo
  IN IF node_id = 0 THEN 1 ELSE node_id

\* ConfigLoader::parseNode: the node of a scenario with this id; the mesh
\* settings are those of every scenario here
parseNode(hasher, id) ==
  [id |-> id, nodeId |-> generateNodeId(hasher, id),
   mesh_prefix |-> <<"m">>, mesh_password |-> <<"p">>, mesh_port |-> 5555]

\* the inner loop of expandTemplates: the nodes of one template
expandTemplate(hasher, tmpl) ==
  [k \in 1..tmpl.count |-> parseNode(hasher, tmpl.id_prefix \o to_string(k - 1))]

\* ConfigLoader::expandTemplates: append the nodes of every template, in order
RECURSIVE expandTemplates(_, _, _)
expandTemplates(hasher, nodeList, templates) ==
  IF templates = <<>> THEN nodeList
  ELSE expandTemplates(hasher, nodeList \o expandTemplate(hasher, Head(templates)),
                       Tail(templates))

\* ConfigLoader::validateSimulation
validateSimulation(config) ==
  (IF config.name = <<>> THEN {"simulation.name"} ELSE {})
  \cup (IF config.time_scale <= 0 THEN {"simulation.time_scale"} ELSE {})

\* ConfigLoader::validateNetwork, of a network section without specific
\* connections
validateNetwork(config) ==
  (IF ~isValid(config.default_latency) THEN {"network.latency.default"} ELSE {})
  \cup (IF ~isValidLoss(config.default_packet_loss)
        THEN {"network.packet_loss.default"} ELSE {})
  \cup (IF config.packet_loss < 0 \/ config.packet_loss > 100
        THEN {"network.packet_loss"} ELSE {})
  \cup (IF config.bandwidth = 0 THEN {"network.bandwidth"} ELSE {})

\* ConfigLoader::validateNode
validateNode(config) ==
  (IF config.id = <<>> THEN {"node.id"} ELSE {})
  \cup (IF config.mesh_prefix = <<>> THEN {"node.config.mesh_prefix"} ELSE {})
  \cup (IF config.mesh_password = <<>> THEN {"node.config.mesh_password"} ELSE {})
  \cup (IF config.mesh_port = 0 THEN {"node.config.mesh_port"} ELSE {})

\* the string ids of a list of nodes
IdsOf(all_nodes) == {all_nodes[i].id : i \in 1..Len(all_nodes)}

\* ConfigLoader::validateTopology, of a random or star topology
validateTopology(config, all_nodes) ==
  (IF config.type = "STAR" /\ (config.hub = <<>> \/ config.hub[1] \notin IdsOf(all_nodes))
   THEN {"topology.hub"} ELSE {})
  \cup (IF config.type = "RANDOM" /\ (config.density < 0 \/ config.density > 100)
        THEN {"topology.density"} ELSE {})

\* ConfigLoader::validateEvent: the time, the target when there is one, and
\* the quality of a set_network_quality event
validateEvent(config, simulation_duration, all_nodes) ==
  (IF simulation_duration > 0 /\ config.time > simulation_duration
   THEN {"event.time"} ELSE {})
  \cup (IF config.target # <<>> /\ config.target \notin IdsOf(all_nodes)
        THEN {"event.target"} ELSE {})
  \cup (IF config.action = "SET_NETWORK_QUALITY"
           /\ (config.quality < 0 \/ config.quality > 100)
        THEN {"event.quality"} ELSE {})

\* ConfigLoader::getValidationErrors, the fields of the errors it returns
getValidationErrors(config) ==
  validateSimulation(config.simulation)
  \cup validateNetwork(config.network)
  \cup UNION {validateNode(config.nodes[i]) : i \in 1..Len(config.nodes)}
  \cup (IF \E i, j \in 1..Len(config.nodes) : i < j /\ config.nodes[i].id = config.nodes[j].id
        THEN {"nodes"} ELSE {})
  \cup (IF config.nodes = <<>> THEN {"nodes"} ELSE {})
  \cup validateTopology(config.topology, config.nodes)
  \cup UNION {validateEvent(config.events[i], config.simulation.duration, config.nodes) :
               i \in 1..Len(config.events)}

\* the node lists, template lists and event lists of the scenarios loaded
NodeIdLists ==
  {<<>>} \cup {<<a>> : a \in ExplicitIds} \cup {<<a, b>> : a \in ExplicitIds, b \in ExplicitIds}
TemplateLists ==
  {<<>>} \cup {<<[id_prefix |-> TemplatePrefix, count |-> c]>> : c \in 0..MaxTemplateCount}

\* an EventConfig that names no node
NoEvent ==
  [time |-> 0, action |-> "HEAL_PARTITION", target |-> <<>>, targets |-> <<>>,
   groups |-> <<>>, from |-> <<>>, to |-> <<>>, quality |-> 100]

EventConfigs ==
  { NoEvent,
    [NoEvent EXCEPT !.action = "STOP_NODE", !.target = <<"a">>],
    [NoEvent EXCEPT !.action = "STOP_NODE", !.target = UnknownId],
    [NoEvent EXCEPT !.action = "STOP_NODE", !.target = <<"n", "0">>],
    [NoEvent EXCEPT !.action = "REMOVE_NODE", !.targets = <<<<"a">>, UnknownId>>],
    [NoEvent EXCEPT !.action = "PARTITION_NETWORK",
                    !.groups = <<<<<<"a">>>>, <<UnknownId>>>>],
    [NoEvent EXCEPT !.action = "BREAK_LINK", !.from = <<"a">>, !.to = UnknownId],
    [NoEvent EXCEPT !.action = "INJECT_MESSAGE", !.from = <<"a">>, !.to = <<"a">>] }
EventLists == {<<>>} \cup {<<ev>> : ev \in EventConfigs}

\* the other sections of the scenarios loaded: all valid, a simulation
\* without a name, a star topology whose hub is no node
ValidSections ==
  [simulation |-> [name |-> <<"s">>, time_scale |-> 1, duration |-> 0],
   network |-> [default_latency |-> [min_ms |-> 10, max_ms |-> 50, distribution |-> "NORMAL"],
                default_packet_loss |-> [probability |-> 0, burst_mode |-> FALSE,
                                         burst_length |-> 3],
                packet_loss |-> 0, bandwidth |-> 1000000],
   topology |-> [type |-> "RANDOM", hub |-> <<>>, density |-> 30]]
OtherSections ==
  { ValidSections,
    [ValidSections EXCEPT !.simulation.name = <<>>],
    [ValidSections EXCEPT !.topology = [type |-> "STAR", hub |-> <<UnknownId>>,
                                        density |-> 30]] }

\* a ConfigLoader before it loads anything
InitLoader == [pc |-> "idle", config |-> <<>>, hasher |-> <<>>, errors |-> {}]

\* what the loader's steps leave alone
LoaderStep ==
  UNCHANGED <<esVars, nsVars, lastNode, mt19937, twin, burstVars, mainLoop, factoryVars>>

\* loader.loadFromFile(file): the scenario of the file, every node parsed by
\* parseNode; hasher is what std::hash yields for the strings hashed
LoadFromFile(ids, templates, events, sections, hasher) ==
  /\ loader.pc = "idle"
  /\ loader' = [pc |-> "loaded",
                config |-> [simulation |-> sections.simulation,
                            network |-> sections.network,
                            topology |-> sections.topology,
                            nodes |-> [i \in 1..Len(ids) |-> parseNode(hasher, ids[i])],
                            templates |-> templates,
                            events |-> events],
                hasher |-> hasher, errors |-> {}]
  /\ LoaderStep

\* main(): loader.expandTemplates(config) when there are templates
ExpandTemplates ==
  /\ loader.pc = "loaded"
  /\ loader' = [loader EXCEPT
                  !.pc = "expanded",
                  !.config.nodes = IF loader.config.templates # <<>>
                                   THEN expandTemplates(loader.hasher, @,
                                                        loader.config.templates)
                                   ELSE @]
  /\ LoaderStep

\* main(): errors = loader.getValidationErrors(config)
GetValidationErrors ==
  /\ loader.pc = "expanded"
  /\ loader' = [loader EXCEPT !.pc = "validated",
                              !.errors = getValidationErrors(loader.config)]
  /\ LoaderStep

\* a scenario loaded, expanded and validated
NextLoader ==
  \/ /\ loader.pc = "idle"
     /\ \E ids \in NodeIdLists, templates \in TemplateLists, events \in EventLists,
           sections \in OtherSections, hasher \in [HashedStrings -> HashValues] :
          LoadFromFile(ids, templates, events, sections, hasher)
  \/ ExpandTemplates
  \/ GetValidationErrors

\* the ids of a std::map in the order its iteration visits them: ascending
RECURSIVE MapOrder(_)
MapOrder(ids) ==
  IF ids = {} THEN <<>>
  ELSE LET least == CHOOSE i \in ids : \A j \in ids : i <= j
       IN <<least>> \o MapOrder(ids \ {least})

startAll_every_node(ns, now) ==
  [ok |-> \A k \in DOMAIN ns : start(ns[k], now).ok,
   nodes |-> [k \in DOMAIN ns |-> start(ns[k], now).node]]

\* NodeManager::startAll: start every node that is not running; ok is
\* whether no start() threw
startAll(ns, now) ==
  [ok |-> \A k \in DOMAIN ns : ~ns[k].running_ => start(ns[k], now).ok,
   nodes |-> [k \in DOMAIN ns |->
                IF ~ns[k].running_ THEN start(ns[k], now).node ELSE ns[k]]]

\* NodeManager::stopAll: stop every node that is running
stopAll(ns, now) ==
  [ok |-> TRUE,
   nodes |-> [k \in DOMAIN ns |-> IF ns[k].running_ THEN stop(ns[k], now) ELSE ns[k]]]

\* NodeManager::updateAll, the nodes after it
updateAll(ns) == [k \in DOMAIN ns |-> update(ns[k])]

\* NodeManager::updateAll, its steps in order: scheduler_->execute(), update()
\* of each node as the loop over nodes_ visits them, io_.poll()
updateAllSteps(ns) ==
  <<[step |-> "scheduler.execute", id |-> 0]>>
  \o [i \in 1..Cardinality(DOMAIN ns) |->
        [step |-> "update", id |-> MapOrder(DOMAIN ns)[i]]]
  \o <<[step |-> "io.poll", id |-> 0]>>

\* what std::rand() yields
RandOutputs == 0..2

RandKey_per_run(run, position) == <<run, position>>

\* the place of a std::rand() output in the sequence of outputs: nothing in
\* the program calls std::srand, so every run reads the sequence of
\* srand(1) from its start
RandKey(run, position) == <<1, position>>

establishConnectivity_any_target(ns, rands) ==
  LET node_list == MapOrder(DOMAIN ns) IN
  [i \in 1..(Len(node_list) - 1) |->
     [from |-> node_list[i + 1], to |-> node_list[(rands[i] % Len(node_list)) + 1]]]

\* NodeManager::establishConnectivity, the connections it requests in order,
\* rands being the outputs of its std::rand() calls: node_list is nodes_ in
\* the map's order, and node_list[i] connects to node_list[rand() % i] for
\* i = 1 .. size - 1 (indices from 0)
establishConnectivity(ns, rands) ==
  LET node_list == MapOrder(DOMAIN ns) IN
  [i \in 1..(Len(node_list) - 1) |->
     [from |-> node_list[i + 1], to |-> node_list[(rands[i] % i) + 1]]]

\* main() before it loads the scenario; running is the flag of main.cpp that
\* signalHandler clears, elapsed the whole seconds since start_time that the
\* loop last computed; twin is what a second run of the same scenario requests
\* from establishConnectivity, polls the passes and exits of the loop in order
InitMain ==
  [pc |-> "load", seed |-> 0, insertion |-> <<>>, tick |-> <<>>, update_count |-> 0,
   connections |-> <<>>, twin |-> <<>>,
   running |-> TRUE, duration |-> 0, elapsed |-> 0, polls |-> <<>>]

\* what main()'s steps leave alone
MainStep ==
  /\ UNCHANGED <<eventQueue_, clock, nextSeq, lastCall, crashHistory>>
  /\ UNCHANGED <<nsVars, lastNode, mt19937, twin, burstVars, loader, factoryVars>>

\* main(): loader.loadFromFile: config.simulation.seed is read, and used
\* nowhere
MainLoadConfig(seed, duration) ==
  /\ mainLoop.pc = "load"
  /\ mainLoop' = [mainLoop EXCEPT !.pc = "create", !.seed = seed, !.duration = duration]
  /\ UNCHANGED nodes
  /\ MainStep

\* main(): manager.establishConnectivity(), in this run and in a second run
\* of the same scenario with the same seed, whatever std::rand() yields
MainEstablishConnectivity ==
  LET calls == 1..(Cardinality(DOMAIN nodes) - 1)
      places == {RandKey(run, i - 1) : run \in {1, 2}, i \in calls}
  IN /\ mainLoop.pc = "connect"
     /\ \E outputs \in [places -> RandOutputs] :
          mainLoop' =
            [mainLoop EXCEPT
               !.pc = "loop",
               !.connections =
                  establishConnectivity(nodes, [i \in calls |-> outputs[RandKey(1, i - 1)]]),
               !.twin =
                  establishConnectivity(nodes, [i \in calls |-> outputs[RandKey(2, i - 1)]])]
     /\ UNCHANGED nodes
     /\ MainStep

\* main(): manager.createNode(nc) for the next node of the configuration, whose
\* ids validation found non-zero and distinct; an exception ends main
MainCreateNode(nodeId) ==
  LET r == createNode(nodes, nodeId) IN
  /\ mainLoop.pc = "create"
  /\ nodeId # 0 /\ nodeId \notin DOMAIN nodes
  /\ nodes' = r.nodes
  /\ mainLoop' = IF r.ok THEN [mainLoop EXCEPT !.insertion = Append(@, nodeId)]
                 ELSE [mainLoop EXCEPT !.pc = "exit"]
  /\ MainStep

\* main(): manager.startAll()
MainStartAll ==
  /\ mainLoop.pc = "create"
  /\ nodes' = startAll(nodes, clock).nodes
  /\ mainLoop' = [mainLoop EXCEPT !.pc = "connect"]
  /\ MainStep

breakLoop_never(duration, elapsed) == FALSE

\* main(): the timeout check of the loop: break when duration > 0 and the
\* elapsed seconds have reached it
breakLoop(duration, elapsed) == duration > 0 /\ elapsed >= duration

\* main(): one pass of while (running): the flag is polled and set,
\* manager.updateAll(), update_count++, the elapsed seconds are computed
\* (now), and the timeout check breaks or the pass ends in sleep_for
MainTick(now) ==
  /\ mainLoop.pc = "loop"
  /\ mainLoop.running
  /\ now >= mainLoop.elapsed
  /\ now > mainLoop.elapsed \/ mainLoop.update_count < MaxTicks
  /\ nodes' = updateAll(nodes)
  /\ mainLoop' = [mainLoop EXCEPT
                    !.tick = updateAllSteps(nodes),
                    !.update_count = @ + 1,
                    !.elapsed = now,
                    !.polls = Append(@, [exit |-> breakLoop(mainLoop.duration, now),
                                         elapsed |-> now, flag |-> TRUE]),
                    !.pc = IF breakLoop(mainLoop.duration, now) THEN "stop" ELSE "loop"]
  /\ MainStep

\* main(): while (running) finds the flag cleared and the loop is left
MainLoopExit ==
  /\ mainLoop.pc = "loop"
  /\ ~mainLoop.running
  /\ mainLoop' = [mainLoop EXCEPT
                    !.pc = "stop",
                    !.polls = Append(@, [exit |-> TRUE, elapsed |-> mainLoop.elapsed,
                                         flag |-> FALSE])]
  /\ UNCHANGED nodes
  /\ MainStep

\* signalHandler, installed before the nodes are created: running = false
SignalHandler ==
  /\ mainLoop.pc \in {"create", "connect", "loop"}
  /\ mainLoop.running
  /\ mainLoop' = [mainLoop EXCEPT !.running = FALSE]
  /\ UNCHANGED nodes
  /\ MainStep

\* main(): after the loop, manager.stopAll()
MainStopAll ==
  /\ mainLoop.pc = "stop"
  /\ nodes' = stopAll(nodes, clock).nodes
  /\ mainLoop' = [mainLoop EXCEPT !.pc = "done"]
  /\ MainStep

\* the durations a scenario gives: 0 (no limit) and the seconds up to MaxElapsed
Durations == 0..MaxElapsed

\* the seeds a scenario gives: 0 (none) and two others
SimulationSeeds == 0..2

\* main(), from the scenario to the end of the simulation loop
NextMain ==
  \/ \E seed \in SimulationSeeds, duration \in Durations : MainLoadConfig(seed, duration)
  \/ \E nodeId \in ManagerIds : MainCreateNode(nodeId)
  \/ MainStartAll
  \/ MainEstablishConnectivity
  \/ \E now \in 0..MaxElapsed : MainTick(now)
  \/ MainLoopExit
  \/ SignalHandler
  \/ MainStopAll

\* manager.startAll()
StartAll == ManagerCall("startAll", 0, startAll(nodes, clock))

\* manager.stopAll()
StopAll == ManagerCall("stopAll", 0, stopAll(nodes, clock))

\* a manager whose nodes, some with firmware, are started, stopped and
\* crashed one by one and all at once
NextBulk ==
  \/ \E nodeId \in NodeIds : CreateNode(nodeId)
  \/ \E id \in DOMAIN nodes : ~nodes[id].started /\ LoadFirmware(id)
  \/ \E id \in DOMAIN nodes : Start(id)
  \/ \E id \in DOMAIN nodes : Stop(id)
  \/ \E id \in DOMAIN nodes : Crash(id)
  \/ StartAll
  \/ StopAll
  \/ AdvanceClock

\* link degradation events among per-link settings, while nodes are created
\* and removed
NextDegrade ==
  \/ /\ configCalls + latencyCalls < MaxDegradeCalls
     /\ \E l \in EventLinks, latencyMs \in DegradeLatencies, packetLoss \in DegradeLosses :
          LinkDegrade(l[1], l[2], latencyMs, packetLoss)
  \/ /\ configCalls + latencyCalls < MaxDegradeCalls
     /\ \E l \in Links, config \in {c \in LatencyConfigs : isValid(c)} :
          SetLatency(l[1], l[2], config)
  \/ /\ configCalls + latencyCalls < MaxDegradeCalls
     /\ \E l \in Links, config \in PacketLossConfigs : SetPacketLoss(l[1], l[2], config)
  \/ \E nodeId \in NodeIds : CreateNode(nodeId)
  \/ \E nodeId \in NodeIds : RemoveNode(nodeId)

\* a manager that starts empty, and its nodes
NextNM ==
  \/ \E nodeId \in ManagerIds : CreateNode(nodeId)
  \/ \E nodeId \in ManagerIds : RemoveNode(nodeId)
  \/ \E id \in DOMAIN nodes : Start(id)
  \/ \E id \in DOMAIN nodes : Stop(id)

\* the node lifecycle under direct calls
NextVN ==
  \/ \E id \in NodeIds : Start(id)
  \/ \E id \in NodeIds : Stop(id)
  \/ \E id \in NodeIds : Crash(id)
  \/ \E id \in NodeIds : Restart(id)
  \/ AdvanceClock

InitVN == lastNode = NoNodeCall

\* a second simulator constructed with the seed of the first, and no
\* generator output read yet
\* no link has a burst state, and shouldDropPacket has decided nothing
InitBurstState ==
  /\ burst_state_map_ = <<>>
  /\ decisions = [l \in Links |-> <<>>]
  /\ mainLoop = InitMain
  /\ loader = InitLoader
  /\ creators_ = <<>>
  /\ lastFactory = NoFactoryCall

InitTwin ==
  /\ mt19937 = <<>>
  /\ twin = [rng_ |-> NetworkSimulator(rng_.seed), message_queue_ |-> <<>>,
             dropped |-> FALSE, ready |-> <<>>]

Init == InitES /\ InitNS /\ InitVN /\ InitTwin /\ InitBurstState

\* two simulators constructed with one seed, any of Seeds
InitDet == InitES /\ (\E seed \in Seeds : InitSeeded(seed)) /\ InitVN /\ InitTwin
           /\ InitBurstState

\* the state after NodeManager's constructor: no node
InitNM ==
  /\ eventQueue_ = <<>> /\ nodes = <<>> /\ clock = 0 /\ nextSeq = 0
  /\ lastCall = NoCall
  /\ crashHistory = [id \in NodeIds |-> [executed |-> 0, onRunning |-> 0]]
  /\ InitNS
  /\ InitVN
  /\ InitTwin
  /\ InitBurstState

\* as Init, after setDefaultLatency({10, 10, UNIFORM}): a fixed latency
InitAdm ==
  /\ InitES
  /\ \E config \in {[min_ms |-> 10, max_ms |-> 10, distribution |-> "UNIFORM"]} :
       /\ isValid(config)
       /\ default_latency_ = config
  /\ message_queue_ = <<>> /\ latency_map_ = <<>> /\ stats_map_ = <<>>
  /\ default_packet_loss_ = [probability |-> 0, burst_mode |-> FALSE, burst_length |-> 3]
  /\ packet_loss_map_ = <<>>
  /\ dropped_connections_ = {} /\ nextMsg = 0 /\ configCalls = 0 /\ latencyCalls = 0
  /\ enqueueCalls = [l \in Links |-> 0] /\ everDropped = {} /\ fate = <<>>
  /\ lastNet = NoNet
  /\ rng_ = NetworkSimulator(CHOOSE seed \in Seeds : TRUE)
  /\ InitVN
  /\ InitTwin
  /\ InitBurstState

\* the event scheduler driving the nodes
SpecES == Init /\ [][NextES]_vars

\* the nodes under direct lifecycle calls
SpecVN == Init /\ [][NextVN]_vars

\* the nodes and their firmware under direct calls
SpecFW == Init /\ [][NextFW]_vars

\* link control, link events and partitions
SpecLink == InitAdm /\ [][NextLink]_vars

\* all operations side by side
SpecFrame == InitAdm /\ [][NextFrame]_vars

\* the node manager, from empty
SpecNM == InitNM /\ [][NextNM]_vars

\* the latency and packet loss settings
SpecCfg == Init /\ [][NextCfg]_vars

\* the network simulator's queue
SpecNS == Init /\ [][NextNS]_vars

\* the manager's bulk start and stop
SpecBulk == InitNM /\ [][NextBulk]_vars

\* the firmware registry
SpecFactory == Init /\ [][NextFactory]_vars

\* the scenario as main() loads, expands and validates it
SpecLoader == Init /\ [][NextLoader]_vars

\* link degradation events, per-link settings and the node manager
SpecDegrade == InitNM /\ [][NextDegrade]_vars

\* a node's firmware loaded by name from the factory
SpecFWName == Init /\ [][NextFWName]_vars

\* main(): the nodes created, started, connected and updated in the loop
SpecMain == InitNM /\ [][NextMain]_vars

\* a pass of main()'s loop in which the steady clock shows a later second
\* than in the pass before
ClockAdvances == \E now \in 0..MaxElapsed : now > mainLoop.elapsed /\ MainTick(now)

\* main() with its scheduling: the process keeps running its loop, each pass
\* sleeps at least a millisecond so that the steady clock reaches the next
\* second, and nothing is assumed about signals
SpecMainFair ==
  /\ InitNM /\ [][NextMain]_vars
  /\ WF_vars(ClockAdvances) /\ WF_vars(MainLoopExit) /\ WF_vars(MainStopAll)

\* the loss decisions of links in burst mode
SpecBurst == Init /\ [][NextBurst]_vars

\* two simulators of one seed in lock step
SpecDet == InitDet /\ [][NextDet]_vars

\* the network simulator's admission
SpecAdm == InitAdm /\ [][NextAdm]_vars

\* ================================================================== claims
\* the events a processEvents call executed, in the order it executed them
Executed == [i \in 1..Len(lastCall.log) |-> lastCall.log[i].event]
SeqSet(q) == {q[i] : i \in 1..Len(q)}
AfterProcessEvents == lastCall.op = "processEvents"

\* C1: processEvents executes the due events in ascending scheduled time,
\* and events with the same scheduled time in the order they were scheduled.
C1_TimeThenFifoOrder ==
  AfterProcessEvents =>
    \A i, j \in 1..Len(Executed) :
      i < j => \/ Executed[i].scheduledTime < Executed[j].scheduledTime
               \/ /\ Executed[i].scheduledTime = Executed[j].scheduledTime
                  /\ Executed[i].seq < Executed[j].seq

\* C3: processEvents(t) executes every pending event scheduled at or before
\* t, the events scheduled at exactly t included, and none scheduled after
\* t; after the call every event still pending is scheduled after t, and
\* each event pending before the call was either executed once or is still
\* pending.
C3_DueEventsExecuted ==
  AfterProcessEvents =>
    /\ \A e \in SeqSet(Executed) : e.scheduledTime <= lastCall.currentTime
    /\ \A e \in SeqSet(eventQueue_) : e.scheduledTime > lastCall.currentTime
    /\ SeqSet(Executed) =
         {e \in SeqSet(lastCall.before) : e.scheduledTime <= lastCall.currentTime}
    /\ SeqSet(eventQueue_) =
         {e \in SeqSet(lastCall.before) : e.scheduledTime > lastCall.currentTime}
    /\ Len(Executed) + Len(eventQueue_) = Len(lastCall.before)

\* a call that ran an event scheduled at exactly its time and left a later
\* event pending
C3_Witness ==
  /\ AfterProcessEvents
  /\ \E e \in SeqSet(Executed) : e.scheduledTime = lastCall.currentTime
  /\ Len(Executed) >= 2
  /\ eventQueue_ # <<>>

\* C4: an event whose execute throws is removed from the queue, the other
\* due events are still executed in the same call, and the count returned
\* is the number of events that executed without an error.
C4_FailureDoesNotAbortDrain ==
  AfterProcessEvents =>
    /\ lastCall.executedCount =
         Cardinality({i \in 1..Len(lastCall.log) : lastCall.log[i].ok})
    /\ \A i \in 1..Len(lastCall.log) :
         ~lastCall.log[i].ok => lastCall.log[i].event \notin SeqSet(eventQueue_)
    /\ \A e \in SeqSet(lastCall.before) :
         e.scheduledTime <= lastCall.currentTime => e \in SeqSet(Executed)

\* a call in which an event failed and a later one still ran
C4_Witness ==
  /\ AfterProcessEvents
  /\ \E i, j \in 1..Len(lastCall.log) :
       i < j /\ ~lastCall.log[i].ok /\ lastCall.log[j].ok
  /\ lastCall.executedCount < Len(lastCall.log)

\* C10 as stated: crash_count is the number of NodeCrash events executed
\* against the node.
C10_CrashCountIsCrashEvents ==
  \A id \in NodeIds : nodes[id].crash_count = crashHistory[id].executed

\* C10 amended: crash_count is the number of NodeCrash events executed
\* against the node while it was running; a NodeCrash event on a stopped
\* node, and every start, stop and restart event, leaves it unchanged.
C10_CrashCountIsCrashesOfRunningNode ==
  \A id \in NodeIds : nodes[id].crash_count = crashHistory[id].onRunning

\* a node crashed by the timeline while running, and named by another
\* NodeCrash event while stopped
C10_Witness ==
  /\ AfterProcessEvents
  /\ \E id \in NodeIds : /\ nodes[id].crash_count >= 1
                          /\ crashHistory[id].executed > nodes[id].crash_count

\* ------------------------------------------------ network simulator claims
AfterGetReady == lastNet.op = "getReadyMessages"
AfterEnqueue == lastNet.op = "enqueueMessage"
LastLink == <<lastNet.from, lastNet.to>>
LastStats == StatsEntry(stats_map_, LastLink)

\* C2: the messages getReadyMessages returns are in ascending delivery
\* time, and those with the same delivery time in the order they were
\* enqueued (message numbers count the enqueue calls).
C2_DeliveryTimeThenFifoOrder ==
  AfterGetReady =>
    \A i, j \in 1..Len(lastNet.ready) :
      i < j => \/ lastNet.ready[i].deliveryTime < lastNet.ready[j].deliveryTime
               \/ /\ lastNet.ready[i].deliveryTime = lastNet.ready[j].deliveryTime
                  /\ lastNet.ready[i].message < lastNet.ready[j].message

MessagesInSight == SeqSet(message_queue_) \cup SeqSet(lastNet.ready)

\* C7: an admitted message's delivery time lies in [now + min_ms,
\* now + max_ms] of the latency config in effect for its link when it was
\* enqueued (the link's own config if it has one, else the default), is
\* exactly now + min_ms when min_ms = max_ms, and no message returned by
\* getReadyMessages(t) has a delivery time after t.
C7_DeliveryTimeWithinLatencyBounds ==
  /\ \A m \in MessagesInSight :
       /\ m.enqueueTime + m.config.min_ms <= m.deliveryTime
       /\ m.deliveryTime <= m.enqueueTime + m.config.max_ms
       /\ m.config.min_ms = m.config.max_ms =>
            m.deliveryTime = m.enqueueTime + m.config.min_ms
  /\ AfterGetReady =>
       \A m \in SeqSet(lastNet.ready) : m.deliveryTime <= lastNet.currentTime

\* messages enqueued under a link's own config and under the default are
\* returned, one of them delayed by a fixed latency, one by a sampled one
C7_Witness ==
  /\ AfterGetReady
  /\ \E m1, m2 \in SeqSet(lastNet.ready) :
       /\ m1.config.min_ms = m1.config.max_ms
       /\ m2.config.min_ms < m2.config.max_ms
       /\ m2.deliveryTime > m2.enqueueTime + m2.config.min_ms
       /\ m1.enqueueTime > 0

\* C8: getReadyMessages(now) returns exactly the queued messages due at
\* now and leaves exactly the others queued; over a run every admitted
\* message is queued, or was returned by exactly one call, or was cleared.
C8_EachMessageReturnedOnce ==
  /\ AfterGetReady =>
       /\ SeqSet(lastNet.ready) =
            {m \in SeqSet(lastNet.before) : m.deliveryTime <= lastNet.currentTime}
       /\ SeqSet(message_queue_) =
            {m \in SeqSet(lastNet.before) : m.deliveryTime > lastNet.currentTime}
       /\ Len(lastNet.ready) + Len(message_queue_) = Len(lastNet.before)
  /\ \A id \in DOMAIN fate :
       LET queued == Cardinality({i \in 1..Len(message_queue_) :
                                    message_queue_[i].message = id})
       IN \/ queued = 1 /\ fate[id].returned = 0 /\ ~fate[id].cleared
          \/ queued = 0 /\ fate[id].returned = 1 /\ ~fate[id].cleared
          \/ queued = 0 /\ fate[id].returned = 0 /\ fate[id].cleared

\* a call that returned a due message and left a later one queued, after an
\* earlier call had returned another
C8_Witness ==
  /\ AfterGetReady
  /\ lastNet.ready # <<>>
  /\ message_queue_ # <<>>
  /\ \E id \in DOMAIN fate :
       /\ fate[id].returned = 1
       /\ \A m \in SeqSet(lastNet.ready) : m.message # id

\* ------------------------------------------------------- node lifecycle claims
\* C9: a node is created stopped; start() on a stopped node makes it
\* running; start() on a running node fails and leaves the running flag,
\* crash_count and the uptime total as they were; stop() on a stopped node
\* succeeds and changes nothing, so a second stop() leaves what the first left.
C9_NodeLifecycle ==
  /\ lastNode.op = "none" => \A id \in NodeIds : ~nodes[id].running_
  /\ lastNode.op = "start" =>
       IF lastNode.before.running_
       THEN ~lastNode.ok /\ nodes[lastNode.id] = lastNode.before
       ELSE lastNode.ok /\ nodes[lastNode.id].running_
  /\ lastNode.op = "stop" =>
       /\ lastNode.ok
       /\ ~nodes[lastNode.id].running_
       /\ ~lastNode.before.running_ => nodes[lastNode.id] = lastNode.before
       /\ \A now \in clock..MaxClock + 1 :
            stop(nodes[lastNode.id], now) = nodes[lastNode.id]

\* start() refused on a node that has run for a while and crashed before
C9_Witness ==
  /\ lastNode.op = "start"
  /\ ~lastNode.ok
  /\ nodes[lastNode.id].crash_count >= 1
  /\ clock > nodes[lastNode.id].start_time

\* ------------------------------------------------------------ firmware claims
\* the calls made on firmware instances of node n, in order
FirmwareCalls(n) == SelectSeq(n.fwLog, LAMBDA e : e.op # "load")

\* node n got one firmware, before its first start, and no other since
AttachedBeforeFirstStart(n) ==
  /\ FwCount(n, "load") = 1
  /\ \A i \in 1..Len(n.fwLog) : n.fwLog[i].op = "load" => ~n.fwLog[i].started

\* C11: on a node whose firmware was attached before its first start, no
\* call reaches the firmware before the first start; from the first start
\* on, the calls made on the firmware are initialize, then setup, then
\* loop calls only: initialize and setup happen once, inside the first
\* start, and never again on a later start or restart, and no loop comes
\* before setup.
C11_SetupOnceAtFirstStart ==
  \A id \in NodeIds :
    LET n == nodes[id]
        calls == FirmwareCalls(n)
    IN AttachedBeforeFirstStart(n) =>
         IF ~n.started THEN calls = <<>>
         ELSE /\ Len(calls) >= 2
              /\ calls[1].op = "initialize" /\ ~calls[1].started
              /\ calls[2].op = "setup" /\ ~calls[2].started
              /\ \A i \in 3..Len(calls) : calls[i].op = "loop"

\* a node with a firmware attached before its first start that has crashed,
\* was started again and has run its firmware's loop since
C11_Witness ==
  /\ lastNode.op = "update"
  /\ \E id \in NodeIds :
       /\ id = lastNode.id
       /\ AttachedBeforeFirstStart(nodes[id])
       /\ nodes[id].crash_count >= 1
       /\ nodes[id].running_
       /\ FwCount(nodes[id], "loop") >= 1
       /\ FwCount(lastNode.before, "loop") < FwCount(nodes[id], "loop")

\* --------------------------------------------------- link and partition claims
\* id is listed in group i of groups
InGroup(groups, i, id) == \E k \in 1..Len(groups[i]) : groups[i][k] = id

\* no id is listed in two groups of groups
PairwiseDisjoint(groups) ==
  \A i, j \in 1..Len(groups) :
    i # j => ~\E id \in AllIds : InGroup(groups, i, id) /\ InGroup(groups, j, id)

\* the last call executed a partition event
AfterPartition == lastNet.op = "PartitionNetwork" /\ lastNet.ok
AfterHeal == lastNet.op = "HealNetwork"

\* C12: after a partition event with at least two non-empty, pairwise
\* disjoint groups, every link between nodes of different groups is
\* inactive in both directions, every link between two nodes of one group
\* is active iff it was before, and every node of the manager listed in
\* group i (counted from 0) has partition id i + 1.
C12_PartitionDropsCrossGroupLinks ==
  (AfterPartition /\ PairwiseDisjoint(lastNet.groups)) =>
    LET groups == lastNet.groups IN
    /\ Len(groups) >= 2
    /\ \A i, j \in 1..Len(groups), u, v \in AllIds :
         (InGroup(groups, i, u) /\ InGroup(groups, j, v)) =>
           IF i # j
           THEN ~isConnectionActive(u, v) /\ ~isConnectionActive(v, u)
           ELSE isConnectionActive(u, v) <=> <<u, v>> \notin lastNet.pre.dropped
    /\ \A i \in 1..Len(groups), id \in DOMAIN nodes :
         InGroup(groups, i, id) => nodes[id].partition_id = (i - 1) + 1

\* a partition into groups of one and of two ids, a link inside the larger
\* group having been dropped before, and a node tagged 2
C12_Witness ==
  /\ AfterPartition
  /\ PairwiseDisjoint(lastNet.groups)
  /\ \E i \in 1..Len(lastNet.groups), u, v \in AllIds :
       /\ u # v /\ InGroup(lastNet.groups, i, u) /\ InGroup(lastNet.groups, i, v)
       /\ <<u, v>> \in lastNet.pre.dropped
       /\ <<v, u>> \notin dropped_connections_
  /\ \E id \in DOMAIN nodes : nodes[id].partition_id = 2

C14_HealActivatesAllAndClearsIds ==
  /\ [](/\ AfterHeal =>
            /\ \A l \in AllLinks : isConnectionActive(l[1], l[2])
            /\ \A id \in DOMAIN nodes : nodes[id].partition_id = 0
            /\ default_latency_ = lastNet.pre.default_latency
            /\ latency_map_ = lastNet.pre.latency_map
            /\ default_packet_loss_ = lastNet.pre.default_packet_loss
            /\ packet_loss_map_ = lastNet.pre.packet_loss_map
        /\ AfterPartition =>
            \A i \in 1..Len(lastNet.groups), id \in DOMAIN nodes :
              InGroup(lastNet.groups, i, id) => nodes[id].partition_id # 0)
  /\ [][\A id \in DOMAIN nodes :
          (nodes[id].partition_id # 0 /\ nodes'[id].partition_id = 0)
            => lastNet'.op = "HealNetwork"]_vars

\* a heal right after a partition, with links dropped, nodes tagged and a
\* per-link latency and loss configuration in place
C14_Witness ==
  /\ AfterHeal
  /\ lastNet.prev # <<>> /\ lastNet.prev.op = "PartitionNetwork" /\ lastNet.prev.ok
  /\ lastNet.pre.dropped # {}
  /\ \E id \in DOMAIN nodes : lastNet.pre.partition[id] # 0
  /\ DOMAIN latency_map_ # {} /\ DOMAIN packet_loss_map_ # {}

\* the operations that drop or restore links
LinkStateOps ==
  {"dropConnection", "restoreConnection", "restoreAllConnections",
   "LinkDrop", "LinkRestore", "PartitionNetwork", "HealNetwork"}

\* C15: the set of inactive links changes only in a step that is a drop, a
\* restore or a restore-all call on the network simulator or a LinkDrop,
\* LinkRestore, PartitionNetwork or HealNetwork event: a step of any other
\* call on the network simulator (enqueue, getReadyMessages, a latency or
\* packet loss setting, LinkDegrade, resetStats, clear) and a step of a
\* node's lifecycle leave every link's active flag as it was.
C15_OnlyLinkOperationsChangeLinkState ==
  [][dropped_connections_' # dropped_connections_ =>
       /\ lastNet' # lastNet
       /\ lastNet'.op \in LinkStateOps
       /\ lastNode' = lastNode]_vars

\* a link is inactive, its latency and loss were degraded since, a message
\* was refused on it and its node was started and crashed
C15_Witness ==
  /\ dropped_connections_ # {}
  /\ <<1, 2>> \in DOMAIN latency_map_
  /\ lastNet.op = "enqueueMessage"
  /\ nodes[1].crash_count >= 1

\* C16: dropConnection(a, b) makes (a, b) inactive and leaves every other
\* link, (b, a) included, as it was; restoreConnection(a, b) makes (a, b)
\* active and leaves every other link as it was; a second call of either
\* changes nothing more; neither changes the statistics, and restoring an
\* active link changes nothing at all.
C16_DropRestoreIdempotentAndDirected ==
  LET a == lastNet.from
      b == lastNet.to
  IN
  /\ lastNet.op = "dropConnection" =>
       /\ ~isConnectionActive(a, b)
       /\ \A l \in AllLinks \ {<<a, b>>} :
            isConnectionActive(l[1], l[2]) <=> l \notin lastNet.pre.dropped
       /\ dropConnection(dropped_connections_, a, b) = dropped_connections_
       /\ <<a, b>> \in lastNet.pre.dropped => dropped_connections_ = lastNet.pre.dropped
       /\ stats_map_ = lastNet.pre.stats
  /\ lastNet.op = "restoreConnection" =>
       /\ isConnectionActive(a, b)
       /\ \A l \in AllLinks \ {<<a, b>>} :
            isConnectionActive(l[1], l[2]) <=> l \notin lastNet.pre.dropped
       /\ restoreConnection(dropped_connections_, a, b) = dropped_connections_
       /\ <<a, b>> \notin lastNet.pre.dropped => dropped_connections_ = lastNet.pre.dropped
       /\ stats_map_ = lastNet.pre.stats

\* a link dropped a second time while its reverse is active and a packet
\* has been counted
C16_Witness ==
  /\ lastNet.op = "dropConnection"
  /\ <<lastNet.from, lastNet.to>> \in lastNet.pre.dropped
  /\ isConnectionActive(lastNet.to, lastNet.from)
  /\ DOMAIN stats_map_ # {}

\* --------------------------------------------------------- node manager claims
\* C17: the manager's node ids are non-zero and pairwise distinct (they
\* are the keys of its map) and there are at most MAX_NODES of them;
\* createNode fails exactly for id 0, for an id already present and for a
\* full manager, and a failed createNode leaves the node set and every
\* node as they were, while a successful one adds one stopped node.
C17_NodeIdsUniqueNonZeroBounded ==
  /\ 0 \notin DOMAIN nodes
  /\ Cardinality(DOMAIN nodes) <= MAX_NODES
  /\ lastNode.op = "createNode" =>
       LET before == lastNode.before
           refused == \/ lastNode.id = 0
                      \/ lastNode.id \in DOMAIN before
                      \/ Cardinality(DOMAIN before) >= MAX_NODES
       IN /\ lastNode.ok <=> ~refused
          /\ ~lastNode.ok => nodes = before
          /\ lastNode.ok =>
               /\ DOMAIN nodes = DOMAIN before \cup {lastNode.id}
               /\ Cardinality(DOMAIN nodes) = Cardinality(DOMAIN before) + 1
               /\ \A id \in DOMAIN before : nodes[id] = before[id]
               /\ ~nodes[lastNode.id].running_

\* createNode refused by a full manager that has a running node
C17_Witness ==
  /\ lastNode.op = "createNode"
  /\ ~lastNode.ok
  /\ lastNode.id # 0
  /\ lastNode.id \notin DOMAIN lastNode.before
  /\ Cardinality(DOMAIN nodes) = MAX_NODES
  /\ \E id \in DOMAIN nodes : nodes[id].running_

\* -------------------------------------------------------- configuration claims
\* the latency and the packet loss configuration in effect for link before
\* the last call
LatencyBefore(link) ==
  IF link \in DOMAIN lastNet.pre.latency_map THEN lastNet.pre.latency_map[link]
  ELSE lastNet.pre.default_latency
PacketLossBefore(link) ==
  IF link \in DOMAIN lastNet.pre.packet_loss_map THEN lastNet.pre.packet_loss_map[link]
  ELSE lastNet.pre.default_packet_loss

LatencySetters == {"setDefaultLatency", "setLatency"}
PacketLossSetters == {"setDefaultPacketLoss", "setPacketLoss"}

\* C18: a latency setter is rejected iff min_ms > max_ms, a packet loss
\* setter iff the probability is outside [0, 1] or burst_length is 0; after
\* a rejected call every link's latency and packet loss configuration in
\* effect, and the stored defaults and overrides, are as before the call.
C18_InvalidConfigRejectedWithoutEffect ==
  /\ lastNet.op \in LatencySetters =>
       (~lastNet.ok <=> lastNet.config.min_ms > lastNet.config.max_ms)
  /\ lastNet.op \in PacketLossSetters =>
       (~lastNet.ok <=> \/ lastNet.config.probability < 0
                       \/ lastNet.config.probability > 100
                       \/ lastNet.config.burst_length = 0)
  /\ (lastNet.op \in LatencySetters \cup PacketLossSetters /\ ~lastNet.ok) =>
       /\ \A l \in AllLinks : /\ getLatency(l[1], l[2]) = LatencyBefore(l)
                               /\ getPacketLoss(l[1], l[2]) = PacketLossBefore(l)
       /\ default_latency_ = lastNet.pre.default_latency
       /\ latency_map_ = lastNet.pre.latency_map
       /\ default_packet_loss_ = lastNet.pre.default_packet_loss
       /\ packet_loss_map_ = lastNet.pre.packet_loss_map

\* a per-link packet loss setting with burst_length 0 is rejected on a link
\* that has an override, after the default was changed
C18_Witness ==
  /\ lastNet.op = "setPacketLoss"
  /\ ~lastNet.ok
  /\ lastNet.config.burst_length = 0
  /\ <<lastNet.from, lastNet.to>> \in DOMAIN packet_loss_map_
  /\ default_packet_loss_.probability # 0

\* C19: a per-link latency or packet loss override set for (a, b) is in
\* effect for (a, b) and changes the configuration in effect for no other
\* pair, (b, a) included; a change of the default changes the
\* configuration in effect for every pair without an override to the new
\* default and for no pair with one.
C19_OverrideShadowsDefaultForExactPair ==
  LET link == <<lastNet.from, lastNet.to>> IN
  /\ (lastNet.op = "setLatency" /\ lastNet.ok) =>
       /\ getLatency(link[1], link[2]) = lastNet.config
       /\ \A l \in AllLinks \ {link} : getLatency(l[1], l[2]) = LatencyBefore(l)
  /\ (lastNet.op = "setPacketLoss" /\ lastNet.ok) =>
       /\ getPacketLoss(link[1], link[2]) = lastNet.config
       /\ \A l \in AllLinks \ {link} : getPacketLoss(l[1], l[2]) = PacketLossBefore(l)
  /\ (lastNet.op = "setDefaultLatency" /\ lastNet.ok) =>
       \A l \in AllLinks :
         getLatency(l[1], l[2]) =
           IF l \in DOMAIN lastNet.pre.latency_map THEN LatencyBefore(l)
           ELSE lastNet.config
  /\ (lastNet.op = "setDefaultPacketLoss" /\ lastNet.ok) =>
       \A l \in AllLinks :
         getPacketLoss(l[1], l[2]) =
           IF l \in DOMAIN lastNet.pre.packet_loss_map THEN PacketLossBefore(l)
           ELSE lastNet.config

\* the default latency is changed while (1, 2) has an override that differs
\* from it and (2, 1) has none
C19_Witness ==
  /\ lastNet.op = "setDefaultLatency" /\ lastNet.ok
  /\ <<1, 2>> \in DOMAIN latency_map_
  /\ <<2, 1>> \notin DOMAIN latency_map_
  /\ getLatency(1, 2) # getLatency(2, 1)
  /\ getLatency(2, 1) # LatencyBefore(<<2, 1>>)

\* ------------------------------------------------------------------ C20
\* the (delivery_time, from, to, payload) tuples of a list of messages
Tuples(messages) ==
  [i \in 1..Len(messages) |->
     <<messages[i].deliveryTime, messages[i].from, messages[i].to, messages[i].message>>]

RECURSIVE TrailingDrops(_)
TrailingDrops(d) ==
  IF d = <<>> \/ ~d[Len(d)] THEN 0
  ELSE 1 + TrailingDrops(SubSeq(d, 1, Len(d) - 1))

\* the lengths of the maximal runs of drops in d that a non-drop ended
EndedRuns(d) ==
  { TrailingDrops(SubSeq(d, 1, j)) :
      j \in {i \in 1..(Len(d) - 1) : d[i] /\ ~d[i + 1]} }

\* C21: on a link with burst_mode and burst_length k, every maximal run of
\* consecutive drop decisions that has ended has a length that is a positive
\* multiple of k; a burst that was triggered makes exactly k decisions drops:
\* the link is in a burst exactly while the drops at the end of the sequence
\* are not a multiple of k, with the rest of the k still to come.
C21_BurstRunsAreMultiplesOfBurstLength ==
  \A l \in Links :
    getPacketLoss(l[1], l[2]).burst_mode =>
      LET k == getPacketLoss(l[1], l[2]).burst_length
          t == TrailingDrops(decisions[l])
      IN /\ \A n \in EndedRuns(decisions[l]) : n > 0 /\ n % k = 0
         /\ BurstStateOf(l).in_burst <=> (t % k # 0)
         /\ BurstStateOf(l).in_burst => BurstStateOf(l).remaining = k - (t % k)

\* with burst_length 3 and a trial that can fail, two bursts in a row: six
\* drops, then a packet that passes
C21_Witness ==
  /\ getPacketLoss(1, 2) = [probability |-> 50, burst_mode |-> TRUE, burst_length |-> 3]
  /\ decisions[<<1, 2>>] = <<TRUE, TRUE, TRUE, TRUE, TRUE, TRUE, FALSE>>
  /\ ~BurstStateOf(<<1, 2>>).in_burst

\* ------------------------------------------------------------------ C22
\* the steps of a tick as the order of the claim has them: the scheduler's
\* events, updateAll with the nodes in insertion order, the ready messages
TickInClaimedOrder ==
  <<[step |-> "scheduler.processEvents", id |-> 0],
    [step |-> "scheduler.execute", id |-> 0]>>
  \o [i \in 1..Len(mainLoop.insertion) |-> [step |-> "update", id |-> mainLoop.insertion[i]]]
  \o <<[step |-> "io.poll", id |-> 0],
       [step |-> "network.getReadyMessages", id |-> 0]>>

\* C22: within every tick of the simulation loop the steps are, in order:
\* the event scheduler processes the events due, then updateAll runs (task
\* scheduler tick, update() of every node in insertion order, I/O poll),
\* then the network simulator's ready messages are drained and dispatched.
C22_TickOrder ==
  mainLoop.update_count > 0 => mainLoop.tick = TickInClaimedOrder

\* ------------------------------------------------------------------ C23
\* C23: after template expansion every node of the scenario has a non-zero
\* NodeId and the NodeIds of all nodes are pairwise distinct; a scenario in
\* which two nodes derive the same NodeId does not pass validation.
C23_ExpandedNodeIdsUniqueNonZero ==
  LET all_nodes == loader.config.nodes IN
  /\ loader.pc \in {"expanded", "validated"} =>
       \A i \in 1..Len(all_nodes) : all_nodes[i].nodeId # 0
  /\ (loader.pc = "validated" /\ loader.errors = {}) =>
       \A i, j \in 1..Len(all_nodes) :
         i # j => all_nodes[i].nodeId # all_nodes[j].nodeId

\* ------------------------------------------------------------------ C24
\* the node ids an event names: target, targets, groups, from and to
NamedBy(ev) ==
  ({ev.target, ev.from, ev.to}
   \cup {ev.targets[i] : i \in 1..Len(ev.targets)}
   \cup UNION {{ev.groups[g][i] : i \in 1..Len(ev.groups[g])} : g \in 1..Len(ev.groups)})
  \ {<<>>}

\* C24: if getValidationErrors returns no error for a scenario, every node
\* id an event of the scenario names (target, targets, groups, from, to) is
\* the id of a node of the expanded node set.
C24_ValidatedEventsNameNodes ==
  (loader.pc = "validated" /\ loader.errors = {}) =>
    \A e \in 1..Len(loader.config.events) :
      NamedBy(loader.config.events[e]) \subseteq IdsOf(loader.config.nodes)

\* ------------------------------------------------------------------ C25
\* C25: registering a name that is registered returns false and leaves the
\* first registration in place, so that create(name) still builds the first
\* creator's firmware; registering a new name returns true and stores the
\* creator; create of a name that is not registered returns null; after
\* clear() no name is registered.
C25_RegistryKeepsFirstRegistration ==
  /\ lastFactory.op = "registerFirmware" =>
       IF lastFactory.name \in DOMAIN lastFactory.before
       THEN /\ ~lastFactory.result
            /\ creators_ = lastFactory.before
            /\ create(creators_, lastFactory.name) = lastFactory.before[lastFactory.name]
       ELSE /\ lastFactory.result
            /\ create(creators_, lastFactory.name) = lastFactory.creator
  /\ lastFactory.op = "create" =>
       /\ creators_ = lastFactory.before
       /\ lastFactory.name \notin DOMAIN creators_ => lastFactory.built = 0
       /\ lastFactory.name \in DOMAIN creators_ =>
            lastFactory.built = creators_[lastFactory.name]
  /\ lastFactory.op = "clear" =>
       \A name \in FirmwareNames :
         ~isRegistered(creators_, name) /\ create(creators_, name) = 0

\* a registered name is registered again with another creator
C25_Witness ==
  /\ lastFactory.op = "registerFirmware"
  /\ lastFactory.name \in DOMAIN lastFactory.before
  /\ lastFactory.creator # lastFactory.before[lastFactory.name]
  /\ Cardinality(DOMAIN creators_) = 2

\* ------------------------------------------------------------------ C26
\* C26: restart() behaves as stop() followed by start(): from a running node
\* and from a stopped node alike the node it leaves is the node that stop()
\* and then start() leave, it is running, the already-running error is not
\* raised, and crash_count is what it was.
C26_RestartIsStopThenStart ==
  lastNode.op = "restart" =>
    LET before == lastNode.before
        n == nodes[lastNode.id]
        stopped == stop(before, n.start_time)
    IN /\ lastNode.ok
       /\ n.running_
       /\ n.crash_count = before.crash_count
       /\ ~stopped.running_
       /\ start(stopped, n.start_time).ok
       /\ n = start(stopped, n.start_time).node

\* a node that crashed once and runs since an earlier time is restarted
C26_Witness ==
  /\ lastNode.op = "restart"
  /\ lastNode.before.running_
  /\ lastNode.before.crash_count > 0
  /\ nodes[lastNode.id].total_uptime_ms > lastNode.before.total_uptime_ms
\* ------------------------------------------------------------------ C27
\* C27: removeNode(id) on a managed node stops it if it is running and
\* removes it: the manager no longer has the id, has one node less, and
\* every other node is what it was; on an id it does not manage it returns
\* false and changes nothing; after the removal a node with the same id can
\* be created again, and is stopped.
C27_RemoveNodeRemovesExactlyThatNode ==
  lastNode.op = "removeNode" =>
    LET before == lastNode.before
        id == lastNode.id
    IN IF id \in DOMAIN before
       THEN /\ lastNode.ok
            /\ ~removeNode(before, id, clock).removed.running_
            /\ id \notin DOMAIN nodes
            /\ Cardinality(DOMAIN nodes) = Cardinality(DOMAIN before) - 1
            /\ \A k \in DOMAIN before \ {id} : k \in DOMAIN nodes /\ nodes[k] = before[k]
            /\ createNode(nodes, id).ok
            /\ createNode(nodes, id).nodes[id] = NewNode
            /\ ~NewNode.running_
       ELSE ~lastNode.ok /\ nodes = before

\* a running node is removed from a full manager whose other nodes run
C27_Witness ==
  /\ lastNode.op = "removeNode"
  /\ lastNode.id \in DOMAIN lastNode.before
  /\ lastNode.before[lastNode.id].running_
  /\ Cardinality(DOMAIN lastNode.before) = MAX_NODES
  /\ \E k \in DOMAIN nodes : nodes[k].running_

\* ------------------------------------------------------------------ C28
\* C28: after startAll() every managed node is running and after stopAll()
\* none is; a node already in the target state is skipped (it is what it
\* was), so neither call raises the already-running error, runs the setup
\* of a firmware that was set up, or changes a crash_count.
C28_BulkStartStopSkipNodesInTargetState ==
  LET before == lastNode.before IN
  lastNode.op \in {"startAll", "stopAll"} =>
    /\ lastNode.ok
    /\ DOMAIN nodes = DOMAIN before
    /\ \A k \in DOMAIN nodes :
         /\ nodes[k].running_ = (lastNode.op = "startAll")
         /\ before[k].running_ = nodes[k].running_ => nodes[k] = before[k]
         /\ nodes[k].crash_count = before[k].crash_count
         /\ FwCount(nodes[k], "setup") <= 1
         /\ before[k].firmware_initialized_ =>
              FwCount(nodes[k], "setup") = FwCount(before[k], "setup")

\* startAll() finds a running node whose firmware is set up and a stopped
\* node that crashed, whose firmware is set up too
C28_Witness ==
  /\ lastNode.op = "startAll"
  /\ \E j, k \in DOMAIN nodes :
       /\ lastNode.before[j].running_
       /\ FwCount(lastNode.before[j], "setup") = 1
       /\ ~lastNode.before[k].running_
       /\ lastNode.before[k].crash_count > 0
       /\ FwCount(lastNode.before[k], "setup") = 1

\* ------------------------------------------------------------------ C29
\* the nodes joined to those of seen by connections, in either direction
RECURSIVE Reachable(_, _)
Reachable(seen, connections) ==
  LET more == seen
              \cup {connections[i].to : i \in {j \in DOMAIN connections :
                                                  connections[j].from \in seen}}
              \cup {connections[i].from : i \in {j \in DOMAIN connections :
                                                    connections[j].to \in seen}}
  IN IF more = seen THEN seen ELSE Reachable(more, connections)

\* the position of a node in the manager's list
IndexOf(list, id) == CHOOSE i \in 1..Len(list) : list[i] = id

\* C29: establishConnectivity on n >= 1 nodes requests exactly n - 1
\* connections, one from each node at index i >= 1 to a node at a strictly
\* lower index, so that the undirected graph of the connections is a
\* spanning tree (connected, and acyclic: n - 1 different edges joining n
\* nodes); on no node it requests nothing.
C29_ConnectivityIsSpanningTree ==
  mainLoop.pc \in {"loop", "stop", "done"} =>
    LET node_list == MapOrder(DOMAIN nodes)
        n == Len(node_list)
        connections == mainLoop.connections
        edges == {{connections[i].from, connections[i].to} : i \in DOMAIN connections}
    IN /\ n = 0 => connections = <<>>
       /\ n >= 1 =>
            /\ Len(connections) = n - 1
            /\ \A i \in 1..(n - 1) :
                 /\ connections[i].from = node_list[i + 1]
                 /\ connections[i].to \in DOMAIN nodes
                 /\ IndexOf(node_list, connections[i].to) < i + 1
            /\ Cardinality(edges) = n - 1
            /\ \A edge \in edges : Cardinality(edge) = 2
            /\ Reachable({node_list[1]}, connections) = DOMAIN nodes

\* three nodes, the third connected to the second: a chain
C29_Witness ==
  /\ mainLoop.pc = "loop"
  /\ Cardinality(DOMAIN nodes) = MAX_NODES
  /\ Len(mainLoop.connections) = MAX_NODES - 1
  /\ \E i \in DOMAIN mainLoop.connections :
       mainLoop.connections[i].to # MapOrder(DOMAIN nodes)[1]

LoopExitsAsClaimed ==
  LET polls == mainLoop.polls IN
  /\ \A i \in DOMAIN polls :
       /\ polls[i].flag =>
            (polls[i].exit <=> (mainLoop.duration > 0 /\ polls[i].elapsed >= mainLoop.duration))
       /\ ~polls[i].flag => polls[i].exit
       /\ polls[i].exit => i = Len(polls)
  /\ mainLoop.pc = "loop" /\ mainLoop.duration > 0 => mainLoop.elapsed < mainLoop.duration
  /\ mainLoop.pc \in {"stop", "done"} <=> (polls # <<>> /\ polls[Len(polls)].exit)
  /\ mainLoop.pc = "done" => \A id \in DOMAIN nodes : ~nodes[id].running_

\* C31: the simulation loop terminates: with duration > 0 it is left at the
\* first pass whose elapsed seconds are >= duration, with the flag cleared it
\* is left at the next poll of the flag without another updateAll, and in both
\* cases stopAll follows, after which no node is running
C31_LoopTerminatesAndStopsAll ==
  /\ []LoopExitsAsClaimed
  /\ [][~mainLoop.running => mainLoop'.update_count = mainLoop.update_count]_vars
  /\ (mainLoop.pc = "loop" /\ (mainLoop.duration > 0 \/ ~mainLoop.running))
       ~> (mainLoop.pc = "done")

\* main() ends after a second pass of the loop reached the duration, with nodes
\* that were running
C31_Witness ==
  /\ mainLoop.pc = "done"
  /\ Len(mainLoop.polls) >= 2
  /\ mainLoop.polls[Len(mainLoop.polls)].flag
  /\ mainLoop.duration > 0
  /\ DOMAIN nodes # {}
  /\ \A id \in DOMAIN nodes : nodes[id].started


\* C32: a NodeStart, NodeStop, NodeCrash or NodeRestart event that names an id
\* the node manager does not have fails with the not-found error; inside
\* processEvents the error is caught, the event leaves every node as it was,
\* and the other due events are still executed
C32_UnknownNodeEventFailsWithoutEffect ==
  /\ \A ev \in TimelineEvents :
       ev.nodeId \notin DOMAIN nodes =>
         execute(ev, nodes, clock) = [ok |-> FALSE, nodes |-> nodes]
  /\ AfterProcessEvents =>
       /\ \A i \in 1..Len(lastCall.log) :
            lastCall.log[i].event.nodeId \notin DOMAIN nodes =>
              ~lastCall.log[i].ok /\ lastCall.log[i].unchanged
       /\ \A e \in SeqSet(lastCall.before) :
            e.scheduledTime <= lastCall.currentTime => e \in SeqSet(Executed)
       /\ lastCall.executedCount =
            Cardinality({i \in 1..Len(lastCall.log) :
                           lastCall.log[i].event.nodeId \in DOMAIN nodes
                           /\ lastCall.log[i].ok})

\* a call in which an event on an unknown node failed and a later event of the
\* same call then changed a node
C32_Witness ==
  /\ AfterProcessEvents
  /\ \E i, j \in 1..Len(lastCall.log) :
       /\ i < j
       /\ lastCall.log[i].event.nodeId \notin DOMAIN nodes
       /\ ~lastCall.log[i].ok
       /\ lastCall.log[j].ok /\ ~lastCall.log[j].unchanged


\* ------------------------------------------------------ link degradation claims
AfterDegrade == lastNet.op = "LinkDegrade"
\* the two directions of the link the last call names
BothWays == {<<lastNet.from, lastNet.to>>, <<lastNet.to, lastNet.from>>}

\* C33: after LinkDegrade(a, b, latency, loss_p) has executed, the latency
\* configuration in effect for (a, b) and for (b, a) is {latency, 2 * latency,
\* UNIFORM} and their packet loss configuration is {loss_p, no burst,
\* burst_length 3}; the configurations of the other links and the defaults are
\* as before.  (latencyMs >= 0 says that the latency is below 2^31, where
\* latencyMs * 2 in uint32_t is the double.)
C33_DegradeSetsBothDirections ==
  (AfterDegrade /\ lastNet.ok) =>
    LET latency == [min_ms |-> lastNet.config.latencyMs,
                    max_ms |-> uint32_times2(lastNet.config.latencyMs),
                    distribution |-> "UNIFORM"]
        loss == [probability |-> lastNet.config.packetLoss, burst_mode |-> FALSE,
                 burst_length |-> 3]
    IN /\ lastNet.config.latencyMs >= 0
       /\ \A l \in BothWays :
            getLatency(l[1], l[2]) = latency /\ getPacketLoss(l[1], l[2]) = loss
       /\ \A l \in (AllLinks \cup DOMAIN latency_map_ \cup DOMAIN packet_loss_map_)
                     \ BothWays :
            /\ getLatency(l[1], l[2]) = LatencyBefore(l)
            /\ getPacketLoss(l[1], l[2]) = PacketLossBefore(l)
            /\ l \in DOMAIN latency_map_ <=> l \in DOMAIN lastNet.pre.latency_map
            /\ l \in DOMAIN packet_loss_map_ <=> l \in DOMAIN lastNet.pre.packet_loss_map
       /\ default_latency_ = lastNet.pre.default_latency
       /\ default_packet_loss_ = lastNet.pre.default_packet_loss

\* a degradation of one link that succeeded while another link had a latency
\* override of its own
C33_Witness ==
  /\ AfterDegrade /\ lastNet.ok
  /\ \E l \in DOMAIN lastNet.pre.latency_map :
       l \notin BothWays /\ lastNet.pre.latency_map[l] # getLatency(lastNet.from, lastNet.to)

\* C34: every per-link latency or packet loss override that the network
\* simulator holds names two ids of nodes the node manager has
C34_OverridesNameExistingNodes ==
  \A l \in DOMAIN latency_map_ \cup DOMAIN packet_loss_map_ :
    l[1] \in DOMAIN nodes /\ l[2] \in DOMAIN nodes

\* C38: LinkDegrade is all or nothing: when it fails (a packet loss outside
\* [0, 1], or latencyMs * 2 wrapping below latencyMs) no latency and no packet
\* loss configuration has changed, and when it succeeds the latency stored has
\* min_ms <= max_ms
C38_DegradeAllOrNothing ==
  AfterDegrade =>
    /\ ~lastNet.ok =>
         /\ latency_map_ = lastNet.pre.latency_map
         /\ packet_loss_map_ = lastNet.pre.packet_loss_map
    /\ lastNet.ok =>
         \A l \in BothWays : uint32_le(latency_map_[l].min_ms, latency_map_[l].max_ms)


\* ------------------------------------------------------ more firmware claims
\* setup() was called on the firmware instance that node n holds
SetUp(n) ==
  /\ n.firmware_ # 0
  /\ \E i \in 1..Len(n.fwLog) : n.fwLog[i].op = "setup" /\ n.fwLog[i].fw = n.firmware_

\* C35: update() on a stopped node does nothing: no mesh update and no loop()
\* of the firmware; update() on a running node whose firmware was set up calls
\* the firmware's loop() once
C35_UpdateLoopsOnceOnRunningNode ==
  /\ \A id \in DOMAIN nodes :
       LET n == nodes[id] IN
       /\ ~n.running_ => updateSteps(n) = <<>> /\ update(n) = n
       /\ (n.running_ /\ SetUp(n)) =>
            /\ updateSteps(n) = <<"mesh.update", "firmware.loop", "io.poll">>
            /\ update(n) = [n EXCEPT !.fwLog = Append(@, FwCall("loop", n.firmware_, n))]
  /\ lastNode.op = "update" =>
       LET before == lastNode.before
           after == nodes[lastNode.id]
       IN /\ ~before.running_ => after = before
          /\ (before.running_ /\ SetUp(before)) =>
               /\ FwCount(after, "loop") = FwCount(before, "loop") + 1
               /\ Len(after.fwLog) = Len(before.fwLog) + 1
               /\ after.fwLog[Len(after.fwLog)].fw = before.firmware_

\* the second update() of a running node with a firmware that was set up
C35_Witness ==
  /\ lastNode.op = "update"
  /\ lastNode.before.running_ /\ SetUp(lastNode.before)
  /\ FwCount(lastNode.before, "loop") = 1
  /\ FwCount(nodes[lastNode.id], "loop") = 2


\* C36: when loadFirmware replaces a firmware that was already set up, the
\* next start() calls initialize and setup() on the new instance, and loop()
\* is never forwarded to an instance whose setup() has not been called
C36_ReplacedFirmwareSetUpBeforeUse ==
  /\ \A id \in DOMAIN nodes :
       LET log == nodes[id].fwLog IN
       \A i \in 1..Len(log) :
         log[i].op = "loop" =>
           \E j \in 1..(i - 1) : log[j].op = "setup" /\ log[j].fw = log[i].fw
  /\ (lastNode.op = "start" /\ lastNode.ok /\ lastNode.before.firmware_ # 0) =>
       SetUp(nodes[lastNode.id])


\* C37: loadFirmware(name) with a name that is not registered reports failure
\* and leaves the firmware slot as it was: a node without firmware has none, a
\* node with a firmware keeps that firmware
C37_FailedLoadKeepsFirmware ==
  /\ \A id \in DOMAIN nodes, firmwareName \in LoadNames \ {""} :
       firmwareName \notin DOMAIN creators_ =>
         LET r == loadFirmwareNamed(nodes[id], creators_, firmwareName,
                                    FwCount(nodes[id], "load") + 1)
         IN ~r.ok /\ r.node.firmware_ = nodes[id].firmware_
  /\ (lastNode.op = "loadFirmwareNamed" /\ ~lastNode.ok) =>
       nodes[lastNode.id].firmware_ = lastNode.before.firmware_


\* the calls that add messages to the queue or take messages from it
QueueOps == {"enqueueMessage", "getReadyMessages", "clear"}

\* C39: admission is decided at enqueue time only: getReadyMessages returns
\* every queued message that is due, whatever its link's state and
\* configuration are by then, and no other call than enqueueMessage,
\* getReadyMessages and clear (no drop, partition, restore, latency or packet
\* loss setting) changes the queue, its length or a queued message's delivery
\* time
C39_AdmissionAtEnqueueOnly ==
  /\ [](AfterGetReady =>
          \A m \in SeqSet(lastNet.before) :
            m.deliveryTime <= lastNet.currentTime
              => m \in SeqSet(lastNet.ready))
  /\ [][message_queue_' # message_queue_ =>
          lastNet' # lastNet /\ lastNet'.op \in QueueOps]_vars
  /\ [][(lastNet' # lastNet /\ lastNet'.op \in LinkStateOps) =>
          Len(message_queue_') = Len(message_queue_)]_vars

\* getReadyMessages returns a message whose link was dropped after the message
\* was queued
C39_Witness ==
  /\ AfterGetReady
  /\ \E m \in SeqSet(lastNet.ready) :
       /\ <<m.from, m.to>> \in dropped_connections_
       /\ m.deliveryTime = lastNet.currentTime


=============================================================================
